---- MODULE Spec2Model ----
(***************************************************************************)
(* Query Gateway of MaxPaz/AgenticAIPipeline:                              *)
(*   src/lambda/sql_executor/lambda_function.py   (free-form SQL executor) *)
(*   src/lambda/get_kpi_data/lambda_function.py   (KPI aggregation)        *)
(* A Python str is modelled as a sequence of one-character strings.        *)
(***************************************************************************)
EXTENDS Integers, Sequences, FiniteSets, TLC

\* ------------------------------------------------------------------------
\* Bounds of the model
\* ------------------------------------------------------------------------
\* number of text fragments an input query is assembled from
MaxFrags == 2

\* number of rows a statement returns
MaxRows == 2

\* number of KPI ids in a call of build_kpi_query
MaxIds == 2

\* number of rows in a call of validate_data_quality
MaxQualityRows == 10

\* number of threads of one process that call get_cached_kpi_mapping
MaxCallers == 3

\* number of text fragments a KPI name is assembled from
MaxNameFrags == 2

\* number of threads that serve invocations of the browser agent
MaxInvokers == 3

\* number of invocations of the browser agent
MaxInvocations == 3

\* ------------------------------------------------------------------------
\* Python str primitives
\* ------------------------------------------------------------------------
LowerLetters == <<"a","b","c","d","e","f","g","h","i","j","k","l","m",
                  "n","o","p","q","r","s","t","u","v","w","x","y","z">>

UpperLetters == <<"A","B","C","D","E","F","G","H","I","J","K","L","M",
                  "N","O","P","Q","R","S","T","U","V","W","X","Y","Z">>

Digits == {"0","1","2","3","4","5","6","7","8","9"}

\* characters removed by str.strip()
Whitespace == {" ", "\n", "\t"}

Range(s) == {s[i] : i \in 1..Len(s)}

\* the regular expression class \w
IsWordChar(c) == c \in Range(LowerLetters) \cup Range(UpperLetters) \cup Digits \cup {"_"}

UpperChar(c) ==
    IF \E i \in 1..26 : LowerLetters[i] = c
    THEN UpperLetters[CHOOSE i \in 1..26 : LowerLetters[i] = c]
    ELSE c

LowerChar(c) ==
    IF \E i \in 1..26 : UpperLetters[i] = c
    THEN LowerLetters[CHOOSE i \in 1..26 : UpperLetters[i] = c]
    ELSE c

\* str.upper()
Upper(s) == [i \in 1..Len(s) |-> UpperChar(s[i])]

\* str.lower()
Lower(s) == [i \in 1..Len(s) |-> LowerChar(s[i])]

\* str.strip()
Strip(s) ==
    LET keep == {i \in 1..Len(s) : s[i] \notin Whitespace}
    IN  IF keep = {} THEN <<>>
        ELSE SubSeq(s, CHOOSE i \in keep : \A j \in keep : i <= j,
                       CHOOSE i \in keep : \A j \in keep : i >= j)

\* sub in s
Contains(s, sub) ==
    \E i \in 1..(Len(s) - Len(sub) + 1) : SubSeq(s, i, i + Len(sub) - 1) = sub

\* faulty variant: the prefix may start anywhere
StartsWith_anywhere(s, prefix) == Contains(s, prefix)

\* str.startswith(prefix)
StartsWith(s, prefix) ==
    /\ Len(s) >= Len(prefix)
    /\ SubSeq(s, 1, Len(prefix)) = prefix

\* str.split(sep) for a one-character separator: the list of the fragments
\* between the separators, empty fragments included
RECURSIVE Split(_, _)
Split(s, sep) ==
    IF \A i \in 1..Len(s) : s[i] # sep
    THEN <<s>>
    ELSE LET k == CHOOSE i \in 1..Len(s) : s[i] = sep /\ \A j \in 1..(i-1) : s[j] # sep
         IN  <<SubSeq(s, 1, k - 1)>> \o Split(SubSeq(s, k + 1, Len(s)), sep)

\* the regular expression assertion \b at the position before s[p]
\* (p = Len(s)+1 is the end of the string)
WordBoundary(s, p) ==
    LET IsWordAt(k) == k \in 1..Len(s) /\ IsWordChar(s[k])
    IN  IsWordAt(p - 1) # IsWordAt(p)

\* faulty variant: the pattern without the \b assertions
re_search_word_unanchored(word, s) == Contains(s, word)

\* re.search(r'\b' + re.escape(word) + r'\b', s)
re_search_word(word, s) ==
    \E i \in 1..(Len(s) - Len(word) + 1) :
        /\ SubSeq(s, i, i + Len(word) - 1) = word
        /\ WordBoundary(s, i)
        /\ WordBoundary(s, i + Len(word))

\* ------------------------------------------------------------------------
\* sql_executor: validate_sql_security
\* ------------------------------------------------------------------------
FORBIDDEN_OPERATIONS ==
    << <<"I","N","S","E","R","T">>,
       <<"U","P","D","A","T","E">>,
       <<"D","E","L","E","T","E">>,
       <<"D","R","O","P">>,
       <<"A","L","T","E","R">>,
       <<"C","R","E","A","T","E">>,
       <<"T","R","U","N","C","A","T","E">>,
       <<"E","X","E","C">>,
       <<"E","X","E","C","U","T","E">>,
       <<"M","E","R","G","E">>,
       <<"G","R","A","N","T">>,
       <<"R","E","V","O","K","E">>,
       <<"C","O","M","M","I","T">>,
       <<"R","O","L","L","B","A","C","K">> >>

SELECT == <<"S","E","L","E","C","T">>

\* faulty variant: the empty fragments are kept
NonEmptyStatements_unfiltered(statements) == statements

\* [s.strip() for s in statements if s.strip()]
NonEmptyStatements(statements) ==
    SelectSeq([i \in 1..Len(statements) |-> Strip(statements[i])],
              LAMBDA st : st # <<>>)

\* An error message is the sequence of the words of its template together
\* with the values interpolated into it.
\* f"Forbidden operation detected: {operation}. Only SELECT queries are allowed."
ForbiddenError(operation) ==
    [words |-> <<"Forbidden", "operation", "detected:", "{operation}.",
                 "Only", "SELECT", "queries", "are", "allowed.">>,
     operation |-> operation]

MultipleStatementsError ==
    [words |-> <<"Multiple", "SQL", "statements", "are", "not", "allowed.",
                 "Only", "single", "SELECT", "queries", "permitted.">>]

OnlySelectError ==
    [words |-> <<"Only", "SELECT", "queries", "are", "allowed.">>]

\* faulty variant: the statements are counted before the operations are searched
validate_sql_security_statements_first(query) ==
    LET query_upper == Upper(query)
        hits == {k \in 1..Len(FORBIDDEN_OPERATIONS) :
                    re_search_word(FORBIDDEN_OPERATIONS[k], query_upper)}
        statements == Split(Strip(query), ";")
        non_empty_statements == NonEmptyStatements(statements)
    IN  IF Len(non_empty_statements) > 1
        THEN [valid |-> FALSE, error |-> MultipleStatementsError]
        ELSE IF hits # {}
        THEN [valid |-> FALSE,
              error |-> ForbiddenError(
                  FORBIDDEN_OPERATIONS[CHOOSE k \in hits : \A j \in hits : k <= j])]
        ELSE IF ~StartsWith(Strip(query_upper), SELECT)
        THEN [valid |-> FALSE, error |-> OnlySelectError]
        ELSE [valid |-> TRUE]

validate_sql_security(query) ==
    LET query_upper == Upper(query)
        hits == {k \in 1..Len(FORBIDDEN_OPERATIONS) :
                    re_search_word(FORBIDDEN_OPERATIONS[k], query_upper)}
        statements == Split(Strip(query), ";")
        non_empty_statements == NonEmptyStatements(statements)
    IN  IF hits # {}
        THEN \* the for loop returns at the first operation of the list that matches
             [valid |-> FALSE,
              error |-> ForbiddenError(
                  FORBIDDEN_OPERATIONS[CHOOSE k \in hits : \A j \in hits : k <= j])]
        ELSE IF Len(non_empty_statements) > 1
        THEN [valid |-> FALSE, error |-> MultipleStatementsError]
        ELSE IF ~StartsWith(Strip(query_upper), SELECT)
        THEN [valid |-> FALSE, error |-> OnlySelectError]
        ELSE [valid |-> TRUE]

\* ------------------------------------------------------------------------
\* Input queries: concatenations of at most MaxFrags fragments
\* ------------------------------------------------------------------------
Fragments ==
    Range(FORBIDDEN_OPERATIONS) \cup
    { <<"d","r","o","p"," ">>, <<"I","n","s","e","r","t">>,
      SELECT, <<"s","e","l","e","c","t",";">>,
      <<" ">>, <<";">>, <<"_">>, <<"x">>, <<"x",";">>, <<"\n">> }

RECURSIVE Concat(_)
Concat(fs) == IF fs = <<>> THEN <<>> ELSE Head(fs) \o Concat(Tail(fs))

QueryInputs ==
    {Concat(fs) : fs \in UNION {[1..n -> Fragments] : n \in 0..MaxFrags}}

\* ------------------------------------------------------------------------
\* Python values shared by the two handlers
\* ------------------------------------------------------------------------
None == [py_none |-> TRUE]

\* dict.get(key, default)
Get(d, key, default) == IF key \in DOMAIN d THEN d[key] ELSE default

\* a str value and a value that is not a str (a JSON number)
Str(chars) == [type |-> "str", value |-> chars]

Num(n) == [type |-> "int", value |-> n]

\* a float with one decimal place, held as its number of tenths
Float(t) == [type |-> "float", tenths |-> t]

\* a decimal.Decimal with two decimal places, held as its number of hundredths
Dec(h) == [type |-> "Decimal", hundredths |-> h]

\* exception classes and their base classes
ExcParent ==
    [OperationalError |-> "MySQLError",
     ProgrammingError |-> "MySQLError",
     MySQLError       |-> "Exception",
     JSONDecodeError  |-> "ValueError",
     ValueError       |-> "Exception",
     AttributeError   |-> "Exception",
     KeyError         |-> "Exception",
     TypeError        |-> "Exception",
     RuntimeError     |-> "Exception"]

RECURSIVE IsInstance(_, _)
IsInstance(class, base) ==
    \/ class = base
    \/ class \in DOMAIN ExcParent /\ IsInstance(ExcParent[class], base)

\* an exception: its class, its args (the error code of a database error)
\* and str(e)
Exc(class, args, message) == [class |-> class, args |-> args, message |-> message]

\* value of a sequence of decimal digits
RECURSIVE DigitsValue(_)
DigitsValue(chars) ==
    IF chars = <<>> THEN 0
    ELSE 10 * DigitsValue(SubSeq(chars, 1, Len(chars) - 1))
         + (CHOOSE d \in 0..9 : <<"0","1","2","3","4","5","6","7","8","9">>[d + 1] = chars[Len(chars)])

\* int(x): an int is returned as it is, a float is truncated towards zero,
\* a str is stripped and parsed as a decimal number with an optional sign;
\* [ok |-> FALSE] stands for the ValueError
int(x) ==
    IF x.type = "int" THEN [ok |-> TRUE, value |-> x.value]
    ELSE IF x.type = "float"
    THEN [ok |-> TRUE,
          value |-> IF x.tenths >= 0 THEN x.tenths \div 10 ELSE 0 - ((0 - x.tenths) \div 10)]
    ELSE LET chars == Strip(x.value)
             signed == chars # <<>> /\ chars[1] \in {"+", "-"}
             digits == IF signed THEN Tail(chars) ELSE chars
         IN  IF digits # <<>> /\ \A i \in 1..Len(digits) : digits[i] \in Digits
             THEN [ok |-> TRUE,
                   value |-> IF signed /\ chars[1] = "-"
                             THEN 0 - DigitsValue(digits) ELSE DigitsValue(digits)]
             ELSE [ok |-> FALSE]

\* what a call of the database driver can raise: the execution-interrupted
\* error, another operational error, another MySQL error, any other exception
ER_QUERY_TIMEOUT == 3024

DbFailures ==
    { Exc("OperationalError", <<ER_QUERY_TIMEOUT>>, "Query execution was interrupted"),
      Exc("OperationalError", <<2013>>, "Lost connection to MySQL server during query"),
      Exc("ProgrammingError", <<1146>>, "Table doesn't exist"),
      Exc("RuntimeError", <<>>, "unexpected") }

\* what closing a cursor or a connection can raise
CloseFailures ==
    { Exc("OperationalError", <<2013>>, "Lost connection to MySQL server during query"),
      Exc("RuntimeError", <<>>, "unexpected") }

\* rows of a result set of the free-form executor
RowSets == UNION {[1..n -> {"row_a", "row_b"}] : n \in 0..MaxRows}

\* measured execution times of a statement, in milliseconds
ElapsedMs == {0, 12}

\* ------------------------------------------------------------------------
\* State
\* ------------------------------------------------------------------------
VARIABLES
    vquery,     \* argument of a call of validate_sql_security
    vresult,    \* its return value, NotReturned before the call
    kcall,      \* a call of a function of get_kpi_data: its name and arguments
    kresult,    \* what the call returned or raised, NotReturned before the call
    entry,      \* the entry point invoked: "sql", "kpi" or "none"
    event,      \* the event of the invocation
    pc,         \* position of the invocation in its handler
    locals,     \* local variables of the handler
    connection, \* "None", "open" or "closed"
    cursor,     \* "None", "open" or "closed"
    db,         \* the database side: connections requested, statements submitted
    pending,    \* what execute_query returns or raises once its finally block is through
    outcome,    \* how the invocation ended: running, returned a response, raised
    KPI_MAPPING_CACHE,  \* the module-level _KPI_MAPPING_CACHE of get_kpi_data
    metadata_file,      \* kpi_meta_data.json as found by load_kpi_metadata, or None
    callers,    \* the threads inside get_cached_kpi_mapping: position, local value, value returned
    builds,     \* number of calls of get_kpi_mapping made by the callers
    stores,     \* number of assignments to _KPI_MAPPING_CACHE made by the callers
    agent_busy,       \* _agent_busy of browser_agent
    active_requests,  \* _active_requests of browser_agent
    request_lock,     \* _request_lock of browser_agent: the thread that holds it, 0 when free
    invocations,      \* the threads of the browser agent: position in invoke, what it did
    arrivals,         \* number of invocations of the browser agent so far
    ping              \* the last status that health_check returned

vvars == <<vquery, vresult, kcall, kresult>>

tvars == <<callers, builds, stores>>

avars == <<agent_busy, active_requests, request_lock, invocations, arrivals, ping>>

cvars == <<KPI_MAPPING_CACHE, metadata_file, tvars, avars>>

hvars == <<entry, event, pc, locals, connection, cursor, db, pending, outcome, cvars>>

vars == <<vquery, vresult, kcall, kresult, entry, event, pc, locals, connection, cursor, db, pending, outcome,
          KPI_MAPPING_CACHE, metadata_file, callers, builds, stores,
          agent_busy, active_requests, request_lock, invocations, arrivals, ping>>

NotReturned == [returned |-> FALSE]

NoCall == [fn |-> "none"]

Running == [kind |-> "running"]

Returned(response) == [kind |-> "returned", response |-> response]

Raised(exc) == [kind |-> "raised", exc |-> exc]

NoPending == [kind |-> "none"]

NoLocals == [unset |-> TRUE]

EmptyDb == [connects |-> 0, statements |-> <<>>]

\* ------------------------------------------------------------------------
\* sql_executor: execute_query, format_response, lambda_handler
\* ------------------------------------------------------------------------
QUERY_TIMEOUT == 30

\* f"Query execution timeout after {timeout} seconds. Try narrowing your date range or filters."
TimeoutError(timeout) ==
    [words |-> <<"Query", "execution", "timeout", "after", "{timeout}", "seconds.",
                 "Try", "narrowing", "your", "date", "range", "or", "filters.">>,
     timeout |-> timeout]

OperationalErrorMessage(error_msg) ==
    [words |-> <<"Database", "operational", "error:", "{error_msg}">>, error_msg |-> error_msg]

DatabaseErrorMessage(error_msg) ==
    [words |-> <<"Database", "error:", "{error_msg}">>, error_msg |-> error_msg]

ExecutionErrorMessage(error_msg) ==
    [words |-> <<"Execution", "error:", "{error_msg}">>, error_msg |-> error_msg]

FailureResult(execution_time_ms, error) ==
    [success |-> FALSE, data |-> <<>>, row_count |-> 0,
     execution_time_ms |-> execution_time_ms, error |-> error]

\* the value returned on the success path of execute_query
SuccessResult(results, execution_time_ms) ==
    LET data == IF results # <<>> THEN results ELSE <<>>
    IN  [success |-> TRUE, data |-> data, row_count |-> Len(data),
         execution_time_ms |-> execution_time_ms, error |-> None]

\* the except clauses of execute_query: the value returned for exception e
execute_query_except(e, timeout) ==
    IF IsInstance(e.class, "OperationalError")
    THEN LET error_code == IF e.args # <<>> THEN e.args[1] ELSE 0
         IN  IF error_code = ER_QUERY_TIMEOUT
             THEN FailureResult(timeout * 1000, TimeoutError(timeout))
             ELSE FailureResult(0, OperationalErrorMessage(e.message))
    ELSE IF IsInstance(e.class, "MySQLError")
    THEN FailureResult(0, DatabaseErrorMessage(e.message))
    ELSE FailureResult(0, ExecutionErrorMessage(e.message))

PendingReturn(value) == [kind |-> "return", value |-> value]

PendingRaise(exc) == [kind |-> "raise", exc |-> exc]

\* the body is the mapping that json.dumps(body, default=str) encodes
format_response(status_code, body, is_bedrock) ==
    IF is_bedrock
    THEN [messageVersion |-> "1.0",
          response |-> [actionGroup |-> "ExecuteSqlQueryActionGroup",
                        apiPath |-> "/execute_sql_query",
                        httpMethod |-> "POST",
                        httpStatusCode |-> status_code,
                        responseBody |-> body]]
    ELSE [statusCode |-> status_code, body |-> body]

InvalidJsonMessage(e) ==
    [words |-> <<"Invalid", "JSON", "in", "request", "body:", "{str(e)}">>, e |-> e.message]

InternalErrorMessage(error_msg) ==
    [words |-> <<"Internal", "server", "error:", "{error_msg}">>, error_msg |-> error_msg]

\* faulty variant: the error bodies have no success field
sql_handler_except_nosuccess(e, is_bedrock_format) ==
    IF IsInstance(e.class, "JSONDecodeError")
    THEN Returned(format_response(400, [error |-> InvalidJsonMessage(e)], is_bedrock_format))
    ELSE Returned(format_response(500, [error |-> InternalErrorMessage(e.message)],
                                  is_bedrock_format))

\* the except clauses of lambda_handler: how the invocation ends when
\* exception e reaches them
sql_handler_except(e, is_bedrock_format) ==
    IF IsInstance(e.class, "JSONDecodeError")
    THEN Returned(format_response(400,
             [success |-> FALSE, error |-> InvalidJsonMessage(e)], is_bedrock_format))
    ELSE Returned(format_response(500,
             [success |-> FALSE, error |-> InternalErrorMessage(e.message)], is_bedrock_format))

\* faulty variant: the security validation is left out
sql_validate_request_nosecurity(query, org_id, is_bedrock_format) ==
    LET reject(status_code, error) ==
            format_response(status_code, [success |-> FALSE, error |-> error], is_bedrock_format)
    IN  IF query = <<>>
        THEN reject(400, [words |-> <<"Query", "parameter", "is", "required">>])
        ELSE IF org_id = <<>>
        THEN reject(400, [words |-> <<"org_id", "parameter", "is", "required",
                                      "for", "data", "isolation">>])
        ELSE None

\* lines 289-308 of lambda_handler: the response returned when an input is
\* missing or the query fails the security validation, None when the
\* request passes
sql_validate_request(query, org_id, is_bedrock_format) ==
    LET validation_result == validate_sql_security(query)
        reject(status_code, error) ==
            format_response(status_code, [success |-> FALSE, error |-> error], is_bedrock_format)
    IN  IF query = <<>>
        THEN reject(400, [words |-> <<"Query", "parameter", "is", "required">>])
        ELSE IF org_id = <<>>
        THEN reject(400, [words |-> <<"org_id", "parameter", "is", "required",
                                      "for", "data", "isolation">>])
        ELSE IF ~validation_result.valid
        THEN reject(403, validation_result.error)
        ELSE None

\* the prologue of lambda_handler, up to the call of execute_query: the
\* response it returns, the exception it raises, or the arguments of the call
sql_handler_prologue(ev) ==
    LET is_bedrock_format == ev.format = "bedrock"
        parameters == ev.parameters
        raw_query == Get(parameters, "sql_query", Get(parameters, "query", Str(<<>>)))
        raw_org_id == Get(parameters, "org_id", Str(<<>>))
        raw_timeout == Get(parameters, "timeout", Num(QUERY_TIMEOUT))
        query == Strip(raw_query.value)
        org_id == Strip(raw_org_id.value)
        rejection == sql_validate_request(query, org_id, is_bedrock_format)
        raise(e) == [kind |-> "raise", exc |-> e, is_bedrock_format |-> is_bedrock_format]
    IN  IF ev.format = "not_object"
        THEN raise(Exc("AttributeError", <<>>, "'list' object has no attribute 'get'"))
        ELSE IF ev.format = "bedrock_bad_properties"
        THEN raise(Exc("KeyError", <<>>, "'name'"))
        ELSE IF ev.format = "body_invalid_json"
        THEN raise(Exc("JSONDecodeError", <<>>, "Expecting value"))
        ELSE IF ev.format = "body_not_object"
        THEN raise(Exc("AttributeError", <<>>, "'list' object has no attribute 'get'"))
        ELSE IF raw_query.type # "str" \/ raw_org_id.type # "str"
        THEN raise(Exc("AttributeError", <<>>, "'int' object has no attribute 'strip'"))
        ELSE IF ~int(raw_timeout).ok
        THEN raise(Exc("ValueError", <<>>, "invalid literal for int() with base 10"))
        ELSE IF rejection # None
        THEN [kind |-> "return", response |-> rejection]
        ELSE [kind |-> "call",
              locals |-> [query |-> query, org_id |-> org_id,
                          timeout |-> int(raw_timeout).value,
                          is_bedrock_format |-> is_bedrock_format]]

\* ------------------------------------------------------------------------
\* Events of the free-form handler
\* ------------------------------------------------------------------------
\* query texts sent to the handler
HandlerQueries ==
    { <<>>, <<" ">>,
      <<"S","E","L","E","C","T"," ","x">>,
      <<" ","s","e","l","e","c","t"," ","o","r","g","_","i","d",";"," ">>,
      <<" ","s","e","l","e","c","t"," ","x",";"," ">>,
      <<"S","E","L","E","C","T"," ","x",";","D","R","O","P"," ","x">>,
      <<"S","E","L","E","C","T"," ","x",";","s","e","l","e","c","t"," ","x">>,
      <<"D","E","L","E","T","E"," ","x">>,
      <<"x">> }

OrgIds == { <<>>, <<" ">>, <<"o","r","g","_","1">>, <<"o","r","g","_","2">> }

QueryParams == {Str(q) : q \in HandlerQueries} \cup {Num(7)}

OrgIdParams == {Str(o) : o \in OrgIds} \cup {Num(7)}

TimeoutParams == {Num(5), Float(5), Str(<<"6","0">>), Str(<<"s","o","o","n">>)}

\* the dictionaries of parameters: each key may be absent; sql_query comes
\* alone or next to a query that would be rejected
SqlParameters ==
    LET Absent == [absent |-> TRUE]
        Opt(S) == S \cup {Absent}
        Select == Str(<<"S","E","L","E","C","T"," ","x">>)
        Delete == Str(<<"D","E","L","E","T","E"," ","x">>)
        Choices == ({Absent} \X Opt(QueryParams)) \cup ({Select} \X {Absent, Delete})
        Value(k, c, o, t) ==
            CASE k = "sql_query" -> c[1] [] k = "query" -> c[2]
              [] k = "org_id" -> o [] k = "timeout" -> t
    IN  { [k \in {key \in {"sql_query", "query", "org_id", "timeout"} :
                     Value(key, c, o, t) # Absent} |-> Value(k, c, o, t)] :
          c \in Choices, o \in Opt(OrgIdParams), t \in Opt(TimeoutParams) }

\* the action-group identifiers a Bedrock event carries; lambda_handler and
\* format_response never read them
SqlEnvelopeIds ==
    { [actionGroup |-> "ExecuteSqlQueryActionGroup", apiPath |-> "/execute_sql_query",
       httpMethod |-> "POST"],
      [actionGroup |-> "TransactionalQueries", apiPath |-> "/run_query", httpMethod |-> "POST"] }

\* a Bedrock action-group event with or without a usable property list, an
\* API Gateway event whose body is or is not the JSON text of an object, a
\* direct invocation, a payload that is not a JSON object
SqlEvents ==
    {[format |-> "bedrock", parameters |-> p, ids |-> ids] :
        p \in SqlParameters, ids \in SqlEnvelopeIds}
    \cup
    {[format |-> f, parameters |-> p, ids |-> <<>>] : f \in {"body", "direct"}, p \in SqlParameters}
    \cup
    {[format |-> f, parameters |-> <<>>, ids |-> <<>>] :
        f \in {"bedrock_no_properties", "bedrock_bad_properties",
               "body_invalid_json", "body_not_object", "not_object"}}

\* ------------------------------------------------------------------------
\* Actions of the free-form handler
\* ------------------------------------------------------------------------
\* lambda_handler up to the call of execute_query
SqlRequest ==
    /\ entry = "sql" /\ pc = "start"
    /\ \E r \in {sql_handler_prologue(event)} :
           CASE r.kind = "return" ->
                  /\ outcome' = Returned(r.response)
                  /\ pc' = "done"
                  /\ UNCHANGED locals
             [] r.kind = "raise" ->
                  /\ outcome' = sql_handler_except(r.exc, r.is_bedrock_format)
                  /\ pc' = "done"
                  /\ UNCHANGED locals
             [] r.kind = "call" ->
                  /\ locals' = r.locals
                  /\ pc' = "connect"
                  /\ UNCHANGED outcome
    /\ UNCHANGED <<vvars, cvars, entry, event, connection, cursor, db, pending>>

\* faulty variant: a failed attempt starts execute_query over
EqRaise_retrying(e) ==
    /\ pending' = PendingReturn(execute_query_except(e, locals.timeout))
    /\ pc' = "connect"

\* a statement of the try block of execute_query raises e
EqRaise(e) ==
    /\ pending' = PendingReturn(execute_query_except(e, locals.timeout))
    /\ pc' = "finally_cursor"

\* connection = get_connection()
GetConnection ==
    /\ entry = "sql" /\ pc = "connect"
    /\ db' = [db EXCEPT !.connects = @ + 1]
    /\ \/ /\ connection' = "open"
          /\ pc' = "cursor"
          /\ UNCHANGED pending
       \/ /\ \E e \in DbFailures : EqRaise(e)
          /\ UNCHANGED connection
    /\ UNCHANGED <<vvars, cvars, entry, event, locals, cursor, outcome>>

\* cursor = connection.cursor()
CreateCursor ==
    /\ entry = "sql" /\ pc = "cursor"
    /\ \/ /\ cursor' = "open"
          /\ pc' = "set_timeout"
          /\ UNCHANGED pending
       \/ /\ \E e \in DbFailures : EqRaise(e)
          /\ UNCHANGED cursor
    /\ UNCHANGED <<vvars, cvars, entry, event, locals, connection, db, outcome>>

Submit(statement, result) ==
    db' = [db EXCEPT !.statements = Append(@, [statement |-> statement, result |-> result])]

\* cursor.execute(f"SET SESSION max_execution_time = {timeout * 1000}")
SetTimeout ==
    /\ entry = "sql" /\ pc = "set_timeout"
    /\ LET statement == [kind |-> "set_max_execution_time", ms |-> locals.timeout * 1000]
       IN  \/ /\ Submit(statement, "ok")
              /\ pc' = "execute"
              /\ UNCHANGED pending
           \/ \E e \in DbFailures : Submit(statement, e.class) /\ EqRaise(e)
    /\ UNCHANGED <<vvars, cvars, entry, event, locals, connection, cursor, outcome>>

\* faulty variant: the statement is narrowed to the rows of the organization
user_statement_filtered(query, org_id) ==
    [kind |-> "user",
     text |-> query \o <<" ","A","N","D"," ","o","r","g","_","i","d"," ","="," ","'">> \o org_id \o <<"'">>]

\* the statement of cursor.execute(query) in execute_query(query, org_id, timeout)
user_statement(query, org_id) == [kind |-> "user", text |-> query]

\* cursor.execute(query), timed
ExecuteStatement ==
    /\ entry = "sql" /\ pc = "execute"
    /\ LET statement == user_statement(locals.query, locals.org_id)
       IN  \/ /\ Submit(statement, "ok")
              /\ \E ms \in ElapsedMs :
                    locals' = [k \in DOMAIN locals \cup {"execution_time_ms"} |->
                                  IF k = "execution_time_ms" THEN ms ELSE locals[k]]
              /\ pc' = "fetch"
              /\ UNCHANGED pending
           \/ /\ \E e \in DbFailures :
                    /\ Submit(statement,
                              IF e.args = <<ER_QUERY_TIMEOUT>> THEN "interrupted" ELSE e.class)
                    /\ EqRaise(e)
              /\ UNCHANGED locals
    /\ UNCHANGED <<vvars, cvars, entry, event, connection, cursor, outcome>>

\* results = cursor.fetchall() and the return statement of the try block
FetchAll ==
    /\ entry = "sql" /\ pc = "fetch"
    /\ \/ /\ \E results \in RowSets :
                pending' = PendingReturn(SuccessResult(results, locals.execution_time_ms))
          /\ pc' = "finally_cursor"
       \/ \E e \in DbFailures : EqRaise(e)
    /\ UNCHANGED <<vvars, cvars, entry, event, locals, connection, cursor, db, outcome>>

\* finally: if cursor: cursor.close(); an exception raised here leaves the
\* finally block at once, before connection.close(). A cursor whose close()
\* raised is counted as released.
FinallyCloseCursor ==
    /\ entry = "sql" /\ pc = "finally_cursor"
    /\ IF cursor = "None"
       THEN /\ pc' = "finally_connection"
            /\ UNCHANGED <<cursor, pending>>
       ELSE \/ /\ cursor' = "closed"
               /\ pc' = "finally_connection"
               /\ UNCHANGED pending
            \/ /\ \E e \in CloseFailures : pending' = PendingRaise(e)
               /\ cursor' = "closed"
               /\ pc' = "exit"
    /\ UNCHANGED <<vvars, cvars, entry, event, locals, connection, db, outcome>>

\* finally: if connection: connection.close()
FinallyCloseConnection ==
    /\ entry = "sql" /\ pc = "finally_connection"
    /\ IF connection = "None"
       THEN UNCHANGED <<connection, pending>>
       ELSE \/ /\ connection' = "closed"
               /\ UNCHANGED pending
            \/ /\ \E e \in CloseFailures : pending' = PendingRaise(e)
               /\ connection' = "closed"
    /\ pc' = "exit"
    /\ UNCHANGED <<vvars, cvars, entry, event, locals, cursor, db, outcome>>

\* execute_query is left: lambda_handler formats the result it returned, or
\* its except clause handles the exception it raised
SqlRespond ==
    /\ entry = "sql" /\ pc = "exit"
    /\ outcome' =
         IF pending.kind = "return"
         THEN LET result == pending.value
                  status_code == IF result.success THEN 200 ELSE 500
              IN  Returned(format_response(status_code, result, locals.is_bedrock_format))
         ELSE sql_handler_except(pending.exc, locals.is_bedrock_format)
    /\ pc' = "done"
    /\ UNCHANGED <<vvars, cvars, entry, event, locals, connection, cursor, db, pending>>

\* ------------------------------------------------------------------------
\* get_kpi_data: dates
\* ------------------------------------------------------------------------
\* str.split(sep) for a separator of any length
RECURSIVE SplitOn(_, _)
SplitOn(s, sep) ==
    IF ~Contains(s, sep)
    THEN <<s>>
    ELSE LET k == CHOOSE i \in 1..(Len(s) - Len(sep) + 1) :
                      /\ SubSeq(s, i, i + Len(sep) - 1) = sep
                      /\ \A j \in 1..(i - 1) : SubSeq(s, j, j + Len(sep) - 1) # sep
         IN  <<SubSeq(s, 1, k - 1)>> \o SplitOn(SubSeq(s, k + Len(sep), Len(s)), sep)

\* parse_date_range: the pair of dates, or [ok |-> FALSE] for the ValueError
parse_date_range(date_range) ==
    LET parts == SplitOn(date_range, <<" ","t","o"," ">>)
    IN  IF Len(parts) # 2
        THEN [ok |-> FALSE]
        ELSE [ok |-> TRUE, start_date |-> Strip(parts[1]), end_date |-> Strip(parts[2])]

normalize_date_format(date_str) ==
    IF Len(date_str) = 7 THEN date_str \o <<"-","0","1">> ELSE date_str

\* faulty variant: every fourth year is a leap year
isleap_every_fourth(year) == year % 4 = 0

\* calendar.isleap
isleap(year) == year % 4 = 0 /\ (year % 100 # 0 \/ year % 400 = 0)

\* calendar.monthrange(year, month)[1]
monthrange_days(year, month) ==
    IF month = 2 THEN (IF isleap(year) THEN 29 ELSE 28)
    ELSE IF month \in {4, 6, 9, 11} THEN 30 ELSE 31

\* f"{n:02d}" for 0 <= n <= 99
TwoDigits(n) ==
    LET digit(d) == <<"0","1","2","3","4","5","6","7","8","9">>[d + 1]
    IN  <<digit(n \div 10), digit(n % 10)>>

\* get_last_day_of_month: the date, or [ok |-> FALSE] for the ValueError of
\* the unpacking, of int() or of calendar.monthrange
get_last_day_of_month(date_str) ==
    IF Len(date_str) # 7
    THEN [ok |-> TRUE, value |-> date_str]
    ELSE LET fields == Split(date_str, "-")
         IN  IF Len(fields) # 2 THEN [ok |-> FALSE]
             ELSE LET year == int(Str(fields[1]))
                      month == int(Str(fields[2]))
                  IN  IF ~year.ok \/ ~month.ok THEN [ok |-> FALSE]
                      ELSE IF month.value \notin 1..12 THEN [ok |-> FALSE]
                      ELSE [ok |-> TRUE,
                            value |-> date_str \o <<"-">>
                                      \o TwoDigits(monthrange_days(year.value, month.value))]

\* ------------------------------------------------------------------------
\* get_kpi_data: KPI mapping
\* ------------------------------------------------------------------------
extract_customer_from_page_name(page_name) ==
    IF StartsWith(page_name, <<"D","r","a","f","t"," ">>)
    THEN SubSeq(page_name, 7, Len(page_name))
    ELSE page_name

\* faulty variant: "revenue" is looked for before "sss revenue"
map_kpi_name_to_column_generic_first(kpi_name) ==
    LET kpi_lower == Lower(kpi_name)
    IN  IF Contains(kpi_lower, <<"r","e","v","e","n","u","e">>)
        THEN Str(<<"c","y","_","r","e","v","e","n","u","e">>)
        ELSE IF Contains(kpi_lower, <<"s","s","s"," ","r","e","v","e","n","u","e">>)
        THEN Str(<<"c","y","_","s","s","s","_","r","e","v","e","n","u","e">>)
        ELSE IF Contains(kpi_lower, <<"s","s","s"," ","v","o","l","u","m","e">>)
        THEN Str(<<"c","y","_","s","s","s","_","v","o","l","u","m","e">>)
        ELSE IF Contains(kpi_lower, <<"v","o","l","u","m","e">>) /\ ~Contains(kpi_lower, <<"7","l","b">>)
        THEN Str(<<"c","y","_","v","o","l","u","m","e">>)
        ELSE IF Contains(kpi_lower, <<"s","t","o","r","e"," ","c","o","u","n","t">>)
        THEN Str(<<"s","t","o","r","e","_","c","o","u","n","t">>)
        ELSE IF \/ Contains(kpi_lower, <<"o","o","s">>)
                \/ Contains(kpi_lower, <<"o","u","t","-","o","f","-","s","t","o","c","k">>)
                \/ Contains(kpi_lower, <<"o","u","t"," ","o","f"," ","s","t","o","c","k">>)
        THEN Str(<<"c","y","_","o","o","s","_","p","e","r","c","e","n","t">>)
        ELSE None

\* map_kpi_name_to_column: the column (a str), or None
map_kpi_name_to_column(kpi_name) ==
    LET kpi_lower == Lower(kpi_name)
    IN  IF Contains(kpi_lower, <<"s","s","s"," ","r","e","v","e","n","u","e">>)
        THEN Str(<<"c","y","_","s","s","s","_","r","e","v","e","n","u","e">>)
        ELSE IF Contains(kpi_lower, <<"r","e","v","e","n","u","e">>)
        THEN Str(<<"c","y","_","r","e","v","e","n","u","e">>)
        ELSE IF Contains(kpi_lower, <<"s","s","s"," ","v","o","l","u","m","e">>)
        THEN Str(<<"c","y","_","s","s","s","_","v","o","l","u","m","e">>)
        ELSE IF Contains(kpi_lower, <<"v","o","l","u","m","e">>) /\ ~Contains(kpi_lower, <<"7","l","b">>)
        THEN Str(<<"c","y","_","v","o","l","u","m","e">>)
        ELSE IF Contains(kpi_lower, <<"s","t","o","r","e"," ","c","o","u","n","t">>)
        THEN Str(<<"s","t","o","r","e","_","c","o","u","n","t">>)
        ELSE IF \/ Contains(kpi_lower, <<"o","o","s">>)
                \/ Contains(kpi_lower, <<"o","u","t","-","o","f","-","s","t","o","c","k">>)
                \/ Contains(kpi_lower, <<"o","u","t"," ","o","f"," ","s","t","o","c","k">>)
        THEN Str(<<"c","y","_","o","o","s","_","p","e","r","c","e","n","t">>)
        ELSE None

\* the mapping built from the list of KPI descriptors: a function from the
\* mapped KPI ids to their column info (a later descriptor of the same id
\* overwrites an earlier one)
MappingOf(metadata) ==
    LET mapped == {i \in 1..Len(metadata) : map_kpi_name_to_column(metadata[i].kpi_name) # None}
        last(id) == CHOOSE i \in mapped :
                        /\ metadata[i].kpi_id = id
                        /\ \A j \in mapped : metadata[j].kpi_id = id => j <= i
    IN  [id \in {metadata[i].kpi_id : i \in mapped} |->
            [column |-> map_kpi_name_to_column(metadata[last(id)].kpi_name).value,
             name   |-> metadata[last(id)].kpi_name,
             unit   |-> Get(metadata[last(id)], "unit", "unknown"),
             chain  |-> extract_customer_from_page_name(
                            Get(metadata[last(id)], "page_name", <<>>))]]

\* get_kpi_mapping: load_kpi_metadata raises when the metadata file is not
\* found (file is None), and the mapping is then empty
get_kpi_mapping(file) ==
    IF file = None THEN <<>> ELSE MappingOf(file.descriptors)

\* a dict held by _KPI_MAPPING_CACHE
Dict(mapping) == [mapping |-> mapping]

\* get_cached_kpi_mapping: the value of _KPI_MAPPING_CACHE after the call,
\* which is also the value returned
get_cached_kpi_mapping(cache, file) ==
    IF cache = None THEN Dict(get_kpi_mapping(file)) ELSE cache

\* ------------------------------------------------------------------------
\* get_kpi_data: build_kpi_query
\* ------------------------------------------------------------------------
\* code point order of the characters of column names
CodePointOrder ==
    <<"0","1","2","3","4","5","6","7","8","9">> \o UpperLetters \o <<"_">> \o LowerLetters

Ord(c) == CHOOSE i \in 1..Len(CodePointOrder) : CodePointOrder[i] = c

\* a < b for two str
RECURSIVE StrLess(_, _)
StrLess(a, b) ==
    IF b = <<>> THEN FALSE
    ELSE IF a = <<>> THEN TRUE
    ELSE IF Head(a) # Head(b) THEN Ord(Head(a)) < Ord(Head(b))
    ELSE StrLess(Tail(a), Tail(b))

\* sorted(set of str)
RECURSIVE Sorted(_)
Sorted(S) ==
    IF S = {} THEN <<>>
    ELSE LET least == CHOOSE a \in S : \A b \in S \ {a} : StrLess(a, b)
         IN  <<least>> \o Sorted(S \ {least})

\* [x for x in xs if not (x in seen or seen.add(x))]
RemoveDuplicates(xs) ==
    LET firsts == {i \in 1..Len(xs) : \A j \in 1..(i - 1) : xs[j] # xs[i]}
        index(n) == CHOOSE i \in firsts : Cardinality({j \in firsts : j <= i}) = n
    IN  [n \in 1..Cardinality(firsts) |-> xs[index(n)]]

FixedProjection ==
    << <<"m","o","n","_","y","e","a","r"," ","a","s"," ","p","e","r","i","o","d">>,
       <<"p","a","r","e","n","t","_","c","h","a","i","n","_","g","r","o","u","p">>,
       <<"c","o","m","p","a","n","y","_","c","h","a","i","n">>,
       <<"c","h","a","n","n","e","l","_","g","r","o","u","p">>,
       <<"c","h","a","n","n","e","l">> >>

cy_revenue == <<"c","y","_","r","e","v","e","n","u","e">>

cy_sss_revenue == <<"c","y","_","s","s","s","_","r","e","v","e","n","u","e">>

cy_volume == <<"c","y","_","v","o","l","u","m","e">>

cy_sss_volume == <<"c","y","_","s","s","s","_","v","o","l","u","m","e">>

cy_oos_percent == <<"c","y","_","o","o","s","_","p","e","r","c","e","n","t">>

store_count == <<"s","t","o","r","e","_","c","o","u","n","t">>

RevenueSiblings ==
    << <<"p","y","_","r","e","v","e","n","u","e">>, <<"r","e","v","e","n","u","e","_","v","a","r","i","a","n","c","e">>,
       <<"r","e","v","e","n","u","e","_","v","a","r","i","a","n","c","e","_","p","e","r","c","e","n","t">> >>

VolumeSiblings ==
    << <<"p","y","_","v","o","l","u","m","e">>, <<"v","o","l","u","m","e","_","v","a","r","i","a","n","c","e">>,
       <<"p","e","r","c","e","n","t","_","v","o","l","u","m","e","_","c","h","a","n","g","e">> >>

OosSiblings == << <<"p","y","_","o","o","s","_","p","e","r","c","e","n","t">> >>

\* faulty variant: only cy_revenue brings the revenue columns of context
revenue_context_wanted_plain_only(columns_to_select) == cy_revenue \in columns_to_select

\* if 'cy_revenue' in columns_to_select or 'cy_sss_revenue' in columns_to_select
revenue_context_wanted(columns_to_select) ==
    cy_revenue \in columns_to_select \/ cy_sss_revenue \in columns_to_select

\* faulty variant: each resolved id is put in front of the earlier ones
resolved_ids_prepended(kpi_ids, kpi_mapping) ==
    LET kept == SelectSeq(kpi_ids, LAMBDA kpi_id : kpi_id \in DOMAIN kpi_mapping)
    IN  [i \in 1..Len(kept) |-> kept[Len(kept) + 1 - i]]

\* for kpi_id in kpi_ids: if kpi_id in kpi_mapping: the ids that get an
\* entry of kpi_info, in the order of the loop
resolved_ids(kpi_ids, kpi_mapping) ==
    SelectSeq(kpi_ids, LAMBDA kpi_id : kpi_id \in DOMAIN kpi_mapping)

\* faulty variant: the filter is added for any number of chains
chain_filter_applies_nonempty(chains_to_filter) == chains_to_filter # {}

\* if chains_to_filter and len(chains_to_filter) < 2
chain_filter_applies(chains_to_filter) ==
    chains_to_filter # {} /\ Cardinality(chains_to_filter) < 2

\* build_kpi_query for an end_date that get_last_day_of_month accepts: the
\* query (its column list and its WHERE clauses) and kpi_info
build_kpi_query(kpi_ids, start_date, end_date, frequency, org_id, kpi_mapping) ==
    LET start == normalize_date_format(start_date)
        end == get_last_day_of_month(end_date).value
        resolved == resolved_ids(kpi_ids, kpi_mapping)
        columns_to_select == {kpi_mapping[resolved[i]].column : i \in 1..Len(resolved)}
        chains_to_filter == {kpi_mapping[resolved[i]].chain : i \in 1..Len(resolved)}
        kpi_info == [i \in 1..Len(resolved) |->
                        [kpi_id |-> resolved[i],
                         column |-> kpi_mapping[resolved[i]].column,
                         name   |-> kpi_mapping[resolved[i]].name,
                         unit   |-> kpi_mapping[resolved[i]].unit,
                         chain  |-> kpi_mapping[resolved[i]].chain]]
        select_columns ==
            FixedProjection
            \o Sorted(columns_to_select)
            \o (IF revenue_context_wanted(columns_to_select) THEN RevenueSiblings ELSE <<>>)
            \o (IF cy_volume \in columns_to_select \/ cy_sss_volume \in columns_to_select
                THEN VolumeSiblings ELSE <<>>)
            \o (IF cy_oos_percent \in columns_to_select THEN OosSiblings ELSE <<>>)
        where_clauses ==
            << [column |-> "mon_year", op |-> ">=", value |-> start],
               [column |-> "mon_year", op |-> "<=", value |-> end] >>
            \o (IF chain_filter_applies(chains_to_filter)
                THEN << [column |-> "parent_chain_group", op |-> "IN",
                         value |-> chains_to_filter] >>
                ELSE <<>>)
    IN  [query |-> [select_columns |-> RemoveDuplicates(select_columns),
                    from |-> "reddyice_s3_commercial_money",
                    where_clauses |-> where_clauses,
                    order_by |-> <<"mon_year", "parent_chain_group">>],
         kpi_info |-> kpi_info]

\* ------------------------------------------------------------------------
\* get_kpi_data: validate_data_quality and format_kpi_results
\* ------------------------------------------------------------------------
\* the keys of a row, in the order of the columns of the query
RowKeys(results) == IF results = <<>> THEN {} ELSE DOMAIN results[1]

NullCount(results, col) ==
    Cardinality({i \in 1..Len(results) : col \in DOMAIN results[i] /\ results[i][col] = None})

RECURSIVE SumValues(_)
SumValues(values) ==
    IF values = <<>> THEN 0 ELSE Head(values).value + SumValues(Tail(values))

\* f"Column '{col}' has {pct:.1f}% null values"; pct is (count / len) * 100,
\* kept as the pair count, len
NullMessage(col, count, rows) ==
    [words |-> <<"Column", "'{col}'", "has", "{pct:.1f}%", "null", "values">>,
     col |-> col, count |-> count, rows |-> rows]

OutlierMessage(col, n) ==
    [words |-> <<"Column", "'{col}'", "has", "{len(outliers)}", "extreme", "outliers">>,
     col |-> col, outliers |-> n]

numeric_columns == <<cy_revenue, cy_volume, cy_oos_percent, store_count>>

\* faulty variant: the limit itself counts as exceeded
exceeds_percent_inclusive(count, rows, limit) == count * 100 >= limit * rows

\* pct > limit for pct = (count / len(results)) * 100; the floating-point
\* test agrees with the exact one for every count <= rows < 3000
exceeds_percent(count, rows, limit) == count * 100 > limit * rows

\* faulty variant: ten times the average itself counts as an outlier
exceeds_ten_times_average_inclusive(v, total, count) == v * count >= total * 10

\* v > avg * 10 for avg = sum(values) / len(values); the floating-point
\* test agrees with the exact one for the whole numbers of the model
exceeds_ten_times_average(v, total, count) == v * count > total * 10

validate_data_quality(results) ==
    IF results = <<>>
    THEN [valid |-> FALSE,
          issues |-> {[words |-> <<"No", "data", "returned", "for", "the", "specified",
                                   "date", "range", "and", "KPI", "IDs">>]},
          warnings |-> {},
          row_count |-> 0]
    ELSE LET rows == Len(results)
             null_columns == {col \in RowKeys(results) : NullCount(results, col) > 0}
             issues == {NullMessage(col, NullCount(results, col), rows) :
                           col \in {c \in null_columns :
                                       exceeds_percent(NullCount(results, c), rows, 50)}}
             null_warnings ==
                 {NullMessage(col, NullCount(results, col), rows) :
                     col \in {c \in null_columns :
                                 /\ ~exceeds_percent(NullCount(results, c), rows, 50)
                                 /\ exceeds_percent(NullCount(results, c), rows, 10)}}
             values(col) == SelectSeq([i \in 1..rows |-> Get(results[i], col, None)],
                                      LAMBDA v : v # None)
             \* [v for v in values if v > avg * 10], for avg # 0
             outliers(col) == SelectSeq(values(col),
                                  LAMBDA v : exceeds_ten_times_average(
                                                 v.value, SumValues(values(col)), Len(values(col))))
             outlier_warnings ==
                 {OutlierMessage(numeric_columns[k], Len(outliers(numeric_columns[k]))) :
                     k \in {j \in 1..Len(numeric_columns) :
                               /\ values(numeric_columns[j]) # <<>>
                               /\ SumValues(values(numeric_columns[j])) # 0
                               /\ outliers(numeric_columns[j]) # <<>>}}
         IN  [valid |-> issues = {},
              issues |-> issues,
              warnings |-> null_warnings \cup outlier_warnings,
              row_count |-> rows]

\* an f-string applied to a value: the format specification and the argument
Formatted(spec, value) == [type |-> "str", format |-> spec, argument |-> value]

formatted_key(key) == key \o <<"_","f","o","r","m","a","t","t","e","d">>

NoTwin == [no_twin |-> TRUE]

\* faulty variant: the formatted text also replaces the raw value
currency_entry_overwriting(value) ==
    [raw |-> Formatted("${value:,.2f}", value.value),
     twin |-> Formatted("${value:,.2f}", value.value)]

\* the currency branch: the raw value is kept, the twin is f"${value:,.2f}"
currency_entry(value) ==
    [raw |-> value, twin |-> Formatted("${value:,.2f}", value.value)]

\* value < 1 for an int or a Decimal
less_than_one(value) ==
    IF value.type = "Decimal" THEN value.hundredths < 100 ELSE value.value < 1

\* value * 100 as a number: a Decimal of h hundredths times 100 is h
times_100(value) ==
    IF value.type = "Decimal" THEN value.hundredths ELSE value.value * 100

\* the number that is formatted: an int, or the hundredths of a Decimal
number(value) ==
    IF value.type = "Decimal" THEN [hundredths |-> value.hundredths] ELSE value.value

\* what format_kpi_results writes for one entry of a row: the value kept
\* under the key and the value of the formatted twin, if it adds one
format_entry(key, value) ==
    LET key_lower == Lower(key)
    IN  IF value = None THEN [raw |-> None, twin |-> NoTwin]
        ELSE IF Contains(key_lower, <<"r","e","v","e","n","u","e">>)
        THEN currency_entry(value)
        ELSE IF Contains(key_lower, <<"p","e","r","c","e","n","t">>) \/ Contains(key_lower, <<"o","o","s">>)
        THEN IF less_than_one(value)
             THEN [raw |-> value, twin |-> Formatted("{value * 100:.2f}%", times_100(value))]
             ELSE [raw |-> value, twin |-> Formatted("{value:.2f}%", number(value))]
        ELSE IF Contains(key_lower, <<"v","o","l","u","m","e">>) \/ Contains(key_lower, <<"c","o","u","n","t">>)
        THEN [raw |-> value, twin |-> Formatted("{value:,.0f}", value.value)]
        ELSE IF key = <<"p","e","r","i","o","d">> \/ Contains(key_lower, <<"d","a","t","e">>)
        THEN IF value.type = "datetime"
             THEN [raw |-> Formatted("%Y-%m-%d", value.value),
                   twin |-> Formatted("%B %Y", value.value)]
             ELSE [raw |-> Formatted("str(value)", value.value),
                   twin |-> Formatted("str(value)", value.value)]
        ELSE [raw |-> value, twin |-> NoTwin]

format_kpi_results(results, kpi_info) ==
    [i \in 1..Len(results) |->
        LET row == results[i]
            twins == {key \in DOMAIN row : format_entry(key, row[key]).twin # NoTwin}
            base(k) == SubSeq(k, 1, Len(k) - Len(<<"_","f","o","r","m","a","t","t","e","d">>))
        IN  [k \in DOMAIN row \cup {formatted_key(key) : key \in twins} |->
                IF k \in DOMAIN row
                THEN format_entry(k, row[k]).raw
                ELSE format_entry(base(k), row[base(k)]).twin]]

\* ------------------------------------------------------------------------
\* get_kpi_data: lambda_handler
\* ------------------------------------------------------------------------
\* the response envelope of the KPI handler; the body is the mapping that
\* json.dumps encodes
kpi_response(ev, status_code, body) ==
    [messageVersion |-> "1.0",
     response |-> [actionGroup |-> Get(ev.ids, "actionGroup", "GetKpiDataActionGroup"),
                   apiPath |-> Get(ev.ids, "apiPath", "/get_kpi_data"),
                   httpMethod |-> Get(ev.ids, "httpMethod", "POST"),
                   httpStatusCode |-> status_code,
                   responseBody |-> body]]

\* the except clause of lambda_handler: how the invocation ends when
\* exception e reaches it; building the response calls event.get, which
\* raises when the event is not a dict
kpi_handler_except(e, ev) ==
    IF ev.format = "not_object"
    THEN Raised(Exc("AttributeError", <<>>, "'list' object has no attribute 'get'"))
    ELSE Returned(kpi_response(ev, 500,
                      [error |-> [words |-> <<"{str(e)}">>, e |-> e.message],
                       kpi_data |-> <<>>]))

\* the list of KPI ids of the request: [ok |-> FALSE] when int() raises
parse_kpi_ids(kpi_ids_str) ==
    LET items ==
            IF kpi_ids_str.type = "str"
            THEN LET pieces == Split(kpi_ids_str.value, ",")
                     kept == SelectSeq(pieces, LAMBDA x : Strip(x) # <<>>)
                 IN  [i \in 1..Len(kept) |-> int(Str(Strip(kept[i])))]
            ELSE IF kpi_ids_str.type = "list"
            THEN [i \in 1..Len(kpi_ids_str.value) |-> int(kpi_ids_str.value[i])]
            ELSE <<int(kpi_ids_str)>>
    IN  IF \E i \in 1..Len(items) : ~items[i].ok
        THEN [ok |-> FALSE]
        ELSE [ok |-> TRUE, value |-> [i \in 1..Len(items) |-> items[i].value]]

\* the prologue of lambda_handler, up to the call of get_db_connection: the
\* response it returns, the exception it raises, or its local variables and
\* the value it leaves in _KPI_MAPPING_CACHE
kpi_handler_prologue(ev, cache, file) ==
    LET parameters == ev.parameters
        kpi_ids_str == Get(parameters, "kpi_ids", Str(<<>>))
        date_range == Get(parameters, "date_range", Str(<<>>))
        frequency == Get(parameters, "frequency", "monthly")
        org_id == Get(parameters, "org_id", "default")
        kpi_ids == parse_kpi_ids(kpi_ids_str)
        dates == parse_date_range(date_range.value)
        kpi_mapping == get_cached_kpi_mapping(cache, file)
        built == build_kpi_query(kpi_ids.value, dates.start_date, dates.end_date,
                                 frequency, org_id, kpi_mapping.mapping)
        raise(e) == [kind |-> "raise", exc |-> e]
    IN  IF ev.format = "not_object"
        THEN raise(Exc("AttributeError", <<>>, "'list' object has no attribute 'get'"))
        ELSE IF ev.format = "parameters_bad"
        THEN raise(Exc("KeyError", <<>>, "'name'"))
        ELSE IF ~kpi_ids.ok
        THEN raise(Exc("ValueError", <<>>, "invalid literal for int() with base 10"))
        ELSE IF kpi_ids.value = <<>>
        THEN [kind |-> "return",
              response |-> kpi_response(ev, 400,
                               [error |-> [words |-> <<"No", "KPI", "IDs", "provided">>],
                                kpi_data |-> <<>>])]
        ELSE IF date_range.type # "str"
        THEN raise(Exc("AttributeError", <<>>, "'int' object has no attribute 'split'"))
        ELSE IF ~dates.ok
        THEN raise(Exc("ValueError", <<>>, "Invalid date range format: {date_range}"))
        ELSE IF ~get_last_day_of_month(dates.end_date).ok
        THEN raise(Exc("ValueError", <<>>, "invalid month"))
        ELSE [kind |-> "call",
              cache |-> kpi_mapping,
              locals |-> [kpi_ids |-> kpi_ids.value, date_range |-> date_range.value,
                          frequency |-> frequency, org_id |-> org_id,
                          query |-> built.query, kpi_info |-> built.kpi_info]]

\* the body of the success response
kpi_response_body(raw_data, l) ==
    LET validation == validate_data_quality(raw_data)
        formatted_data == format_kpi_results(raw_data, l.kpi_info)
    IN  [kpi_data |-> formatted_data,
         count |-> Len(formatted_data),
         kpi_ids |-> l.kpi_ids,
         kpi_info |-> l.kpi_info,
         date_range |-> l.date_range,
         frequency |-> l.frequency,
         data_quality |-> validation]

\* ------------------------------------------------------------------------
\* Events of the KPI handler, metadata catalog, result rows
\* ------------------------------------------------------------------------
KpiCatalog ==
    << [kpi_id |-> 1, kpi_name |-> <<"T","o","t","a","l"," ","R","e","v","e","n","u","e">>,
        page_name |-> <<"D","r","a","f","t"," ","C","u","s","t","o","m","e","r"," ","A">>, unit |-> "currency"],
       [kpi_id |-> 2, kpi_name |-> <<"T","o","t","a","l"," ","S","S","S"," ","V","o","l","u","m","e">>,
        page_name |-> <<"D","r","a","f","t"," ","C","u","s","t","o","m","e","r"," ","B">>, unit |-> "count"],
       [kpi_id |-> 3, kpi_name |-> <<"A","v","e","r","a","g","e"," ","O","O","S","%">>,
        page_name |-> <<"C","u","s","t","o","m","e","r"," ","A">>],
       [kpi_id |-> 4, kpi_name |-> <<"7","l","b"," ","V","o","l","u","m","e">>,
        page_name |-> <<"D","r","a","f","t"," ","C","u","s","t","o","m","e","r"," ","A">>, unit |-> "count"],
       [kpi_id |-> 5, kpi_name |-> <<"T","o","t","a","l"," ","S","t","o","r","e"," ","C","o","u","n","t">>,
        page_name |-> <<"D","r","a","f","t"," ","C","u","s","t","o","m","e","r"," ","A">>, unit |-> "count"] >>

MetadataFiles == {None, [descriptors |-> KpiCatalog]}

KpiIdParams ==
    { Str(<<>>), Str(<<"1">>), Str(<<"1",","," ","9",","," ","2">>), Str(<<"4",",","9">>),
      Str(<<"1",",","x">>),
      [type |-> "list", value |-> <<>>],
      [type |-> "list", value |-> <<Num(3), Str(<<"5">>), Num(1)>>],
      Num(2) }

DateRangeParams ==
    { Str(<<"2","0","2","4","-","0","1"," ","t","o"," ","2","0","2","4","-","0","2">>),
      Str(<<"2","0","2","4","-","0","3"," ","t","o"," ","2","0","2","3","-","0","2">>),
      Str(<<"2","0","2","4","-","0","1">>),
      Str(<<"J","a","n"," ","t","o"," ","F","e","b">>),
      Str(<<"2","0","2","4","-","0","1"," ","t","o"," ","2","0","2","4","-","1","3">>),
      Str(<<"2","0","2","4","-","0","1","-","1","5"," ","t","o"," ","2","0","2","4","-","0","2","-","1","0">>),
      Num(2024) }

KpiParameters ==
    LET Absent == [absent |-> TRUE]
        Opt(S) == S \cup {Absent}
    IN  { [k \in {key \in {"kpi_ids", "date_range"} :
                     (IF key = "kpi_ids" THEN ids ELSE dr) # Absent}
             |-> IF k = "kpi_ids" THEN ids ELSE dr] :
          ids \in Opt(KpiIdParams), dr \in Opt(DateRangeParams) }

\* the action-group identifiers an event carries, if it carries them
EnvelopeIds ==
    { <<>>,
      [actionGroup |-> "SmartRetrievalKpiGroup", apiPath |-> "/kpi/data", httpMethod |-> "GET"] }

KpiEvents ==
    {[format |-> f, parameters |-> p, ids |-> ids] :
        f \in {"requestBody", "parameters", "direct"}, p \in KpiParameters, ids \in EnvelopeIds}
    \cup
    {[format |-> f, parameters |-> <<>>, ids |-> ids] :
        f \in {"requestBody_no_properties", "parameters_bad"}, ids \in EnvelopeIds}
    \cup
    {[format |-> "not_object", parameters |-> <<>>, ids |-> <<>>]}

\* the key under which a column of the query appears in a row
OutputKey(column) ==
    IF column = <<"m","o","n","_","y","e","a","r"," ","a","s"," ","p","e","r","i","o","d">> THEN <<"p","e","r","i","o","d">> ELSE column

\* rows the table can hold for the columns of a query: a row with all its
\* values, a row whose KPI values are null
KpiRow(query, pattern) ==
    LET columns == query.select_columns
        keys == {OutputKey(columns[i]) : i \in 1..Len(columns)}
        fixed == {OutputKey(FixedProjection[i]) : i \in 1..Len(FixedProjection)}
    IN  [k \in keys |->
            IF k = <<"p","e","r","i","o","d">> THEN Str(<<"2","0","2","4","-","0","1","-","0","1">>)
            ELSE IF k \in fixed THEN Str(<<"A">>)
            ELSE IF pattern = "nulls" THEN None
            ELSE Num(100)]

KpiRowSets(query) ==
    UNION {[1..n -> {KpiRow(query, pattern) : pattern \in {"values", "nulls"}}] : n \in 0..MaxRows}

\* ------------------------------------------------------------------------
\* Actions of the KPI handler
\* ------------------------------------------------------------------------
\* lambda_handler up to the call of get_db_connection
KpiRequest ==
    /\ entry = "kpi" /\ pc = "start"
    /\ \E r \in {kpi_handler_prologue(event, KPI_MAPPING_CACHE, metadata_file)} :
           CASE r.kind = "return" ->
                  /\ outcome' = Returned(r.response)
                  /\ pc' = "done"
                  /\ UNCHANGED <<locals, KPI_MAPPING_CACHE>>
             [] r.kind = "raise" ->
                  /\ outcome' = kpi_handler_except(r.exc, event)
                  /\ pc' = "done"
                  /\ UNCHANGED <<locals, KPI_MAPPING_CACHE>>
             [] r.kind = "call" ->
                  /\ locals' = r.locals
                  /\ KPI_MAPPING_CACHE' = r.cache
                  /\ pc' = "connect"
                  /\ UNCHANGED outcome
    /\ UNCHANGED <<vvars, tvars, avars, entry, event, metadata_file, connection, cursor, db, pending>>

\* a statement of the try block of lambda_handler raises e
KpiRaise(e) ==
    /\ outcome' = kpi_handler_except(e, event)
    /\ pc' = "done"

\* conn = get_db_connection()
KpiConnect ==
    /\ entry = "kpi" /\ pc = "connect"
    /\ db' = [db EXCEPT !.connects = @ + 1]
    /\ \/ /\ connection' = "open"
          /\ pc' = "cursor"
          /\ UNCHANGED outcome
       \/ /\ \E e \in DbFailures : KpiRaise(e)
          /\ UNCHANGED connection
    /\ UNCHANGED <<vvars, cvars, entry, event, locals, cursor, pending>>

\* cursor = conn.cursor()
KpiCursor ==
    /\ entry = "kpi" /\ pc = "cursor"
    /\ \/ /\ cursor' = "open"
          /\ pc' = "execute"
          /\ UNCHANGED outcome
       \/ /\ \E e \in DbFailures : KpiRaise(e)
          /\ UNCHANGED cursor
    /\ UNCHANGED <<vvars, cvars, entry, event, locals, connection, db, pending>>

\* cursor.execute(query)
KpiExecute ==
    /\ entry = "kpi" /\ pc = "execute"
    /\ LET statement == [kind |-> "kpi", query |-> locals.query]
       IN  \/ /\ Submit(statement, "ok")
              /\ pc' = "fetch"
              /\ UNCHANGED outcome
           \/ \E e \in DbFailures : Submit(statement, e.class) /\ KpiRaise(e)
    /\ UNCHANGED <<vvars, cvars, entry, event, locals, connection, cursor, pending>>

\* results = cursor.fetchall()
KpiFetch ==
    /\ entry = "kpi" /\ pc = "fetch"
    /\ \/ /\ \E results \in KpiRowSets(locals.query) :
                locals' = [k \in DOMAIN locals \cup {"results"} |->
                              IF k = "results" THEN results ELSE locals[k]]
          /\ pc' = "close_cursor"
          /\ UNCHANGED outcome
       \/ /\ \E e \in DbFailures : KpiRaise(e)
          /\ UNCHANGED locals
    /\ UNCHANGED <<vvars, cvars, entry, event, connection, cursor, db, pending>>

\* cursor.close(); a cursor whose close() raised is counted as released
KpiCloseCursor ==
    /\ entry = "kpi" /\ pc = "close_cursor"
    /\ cursor' = "closed"
    /\ \/ /\ pc' = "close_connection"
          /\ UNCHANGED outcome
       \/ \E e \in CloseFailures : KpiRaise(e)
    /\ UNCHANGED <<vvars, cvars, entry, event, locals, connection, db, pending>>

\* conn.close()
KpiCloseConnection ==
    /\ entry = "kpi" /\ pc = "close_connection"
    /\ connection' = "closed"
    /\ \/ /\ pc' = "respond"
          /\ UNCHANGED outcome
       \/ \E e \in CloseFailures : KpiRaise(e)
    /\ UNCHANGED <<vvars, cvars, entry, event, locals, cursor, db, pending>>

\* the rest of lambda_handler: data quality, formatting, the 200 response
KpiRespond ==
    /\ entry = "kpi" /\ pc = "respond"
    /\ outcome' = Returned(kpi_response(event, 200,
                               kpi_response_body(locals.results, locals)))
    /\ pc' = "done"
    /\ UNCHANGED <<vvars, cvars, entry, event, locals, connection, cursor, db, pending>>

\* ------------------------------------------------------------------------
\* Specification of the handlers: one invocation of one entry point
\* ------------------------------------------------------------------------
NoCallers == <<>>

NoInvocations == <<>>

\* the globals of browser_agent when the module is loaded
InitAgentGlobals ==
    /\ agent_busy = FALSE
    /\ active_requests = 0
    /\ request_lock = 0
    /\ arrivals = 0
    /\ ping = "none"

InitHandlerState ==
    /\ callers = NoCallers
    /\ builds = 0
    /\ stores = 0
    /\ InitAgentGlobals
    /\ invocations = NoInvocations
    /\ pc = "start"
    /\ locals = NoLocals
    /\ connection = "None"
    /\ cursor = "None"
    /\ db = EmptyDb
    /\ pending = NoPending
    /\ outcome = Running

\* a cold container has no cached mapping, a warm one holds the mapping that
\* an earlier invocation built from the metadata file
Init ==
    /\ vquery = <<>>
    /\ vresult = NotReturned
    /\ kcall = NoCall
    /\ kresult = NotReturned
    /\ InitHandlerState
    /\ \/ /\ entry = "sql"
          /\ event \in SqlEvents
          /\ metadata_file = None
          /\ KPI_MAPPING_CACHE = None
       \/ /\ entry = "kpi"
          /\ event \in KpiEvents
          /\ metadata_file \in MetadataFiles
          /\ KPI_MAPPING_CACHE \in {None, Dict(get_kpi_mapping(metadata_file))}

Next ==
    \/ KpiRequest
    \/ KpiConnect
    \/ KpiCursor
    \/ KpiExecute
    \/ KpiFetch
    \/ KpiCloseCursor
    \/ KpiCloseConnection
    \/ KpiRespond
    \/ SqlRequest
    \/ GetConnection
    \/ CreateCursor
    \/ SetTimeout
    \/ ExecuteStatement
    \/ FetchAll
    \/ FinallyCloseCursor
    \/ FinallyCloseConnection
    \/ SqlRespond

Spec == Init /\ [][Next]_vars

\* ------------------------------------------------------------------------
\* Specification of the validator: one call on an arbitrary query
\* ------------------------------------------------------------------------
InitValidate ==
    /\ vquery \in QueryInputs
    /\ vresult = NotReturned
    /\ kcall = NoCall
    /\ kresult = NotReturned
    /\ entry = "none"
    /\ event = <<>>
    /\ InitHandlerState
    /\ metadata_file = None
    /\ KPI_MAPPING_CACHE = None

ValidateSqlSecurity ==
    /\ vresult = NotReturned
    /\ vresult' = validate_sql_security(vquery)
    /\ UNCHANGED <<vquery, kcall, kresult, hvars>>

NextValidate == ValidateSqlSecurity

SpecValidate == InitValidate /\ [][NextValidate]_vars

\* ------------------------------------------------------------------------
\* Specification of the functions of get_kpi_data: one call of one function
\* ------------------------------------------------------------------------
\* f"{n:04d}" for 0 <= n <= 9999
FourDigits(n) == TwoDigits(n \div 100) \o TwoDigits(n % 100)

\* the text "YYYY-MM"
YearMonth(year, month) == FourDigits(year) \o <<"-">> \o TwoDigits(month)

DateYears == {1900, 2000, 2023, 2024}

Months == 1..12

\* the date ranges "Y1-M1 to Y2-M2", each with the numbers it was written from
YearMonthRanges ==
    {[text |-> YearMonth(y1, m1) \o <<" ","t","o"," ">> \o YearMonth(y2, m2),
      given |-> <<y1, m1, y2, m2>>] :
        y1 \in DateYears, m1 \in Months, y2 \in DateYears, m2 \in Months}

\* the date ranges of the handler's events that are texts
OtherRanges ==
    {[text |-> d.value, given |-> <<>>] : d \in {p \in DateRangeParams : p.type = "str"}}

\* the calls of build_kpi_query that vary the date range
DateCalls ==
    {[fn |-> "build_kpi_query", kpi_ids |-> <<1>>, date_range |-> r.text, given |-> r.given,
      kpi_mapping |-> Dict(MappingOf(KpiCatalog))] : r \in YearMonthRanges \cup OtherRanges}

\* a catalog with a descriptor for each of the six columns
FullCatalog ==
    KpiCatalog \o
    << [kpi_id |-> 6, kpi_name |-> <<"T","o","t","a","l"," ","S","S","S"," ","R","e","v","e","n","u","e">>,
        page_name |-> <<"D","r","a","f","t"," ","C","u","s","t","o","m","e","r"," ","A">>, unit |-> "currency"],
       [kpi_id |-> 7, kpi_name |-> <<"T","o","t","a","l"," ","V","o","l","u","m","e">>,
        page_name |-> <<"D","r","a","f","t"," ","C","u","s","t","o","m","e","r"," ","B">>, unit |-> "count"] >>

\* the ids of the catalogs' descriptors that get a column, and one unknown id
KpiIdUniverse == {1, 2, 3, 5, 6, 7, 9}

\* the calls of build_kpi_query that vary the ids and the mapping
IdCalls ==
    {[fn |-> "build_kpi_query", kpi_ids |-> ids,
      date_range |-> <<"2","0","2","4","-","0","1"," ","t","o"," ","2","0","2","4","-","0","2">>,
      given |-> <<>>, kpi_mapping |-> Dict(get_kpi_mapping(file))] :
        ids \in UNION {[1..n -> KpiIdUniverse] : n \in 0..MaxIds},
        file \in MetadataFiles \cup {[descriptors |-> FullCatalog]}}

BuildQueryCalls == DateCalls \cup IdCalls

\* values of the numeric columns of a row
NumericValues == {None, Num(0), Num(1500)}

\* values of the period column: NULL, a text, a datetime
PeriodValues ==
    {None, Str(<<"2","0","2","4","-","0","1","-","0","1">>),
     [type |-> "datetime", value |-> <<2024, 1, 1>>]}

\* values of the percentage columns: NULL, whole numbers and the fractions
\* 0.50, -0.50 and 1.50
PercentValues ==
    {None, Num(0), Num(1), Num(5), Num(-5), Dec(50), Dec(-50), Dec(150)}

revenue_variance_percent ==
    <<"r","e","v","e","n","u","e","_","v","a","r","i","a","n","c","e","_","p","e","r","c","e","n","t">>

percent_volume_change == VolumeSiblings[3]

py_oos_percent == OosSiblings[1]

period == <<"p","e","r","i","o","d">>

channel == <<"c","h","a","n","n","e","l">>

\* rows with a column of each kind that format_kpi_results tells apart
FormatRows ==
    {[key \in {cy_revenue, revenue_variance_percent, cy_oos_percent, py_oos_percent,
                cy_volume, percent_volume_change, period, channel}
        |-> CASE key = cy_revenue -> r
              [] key = revenue_variance_percent -> rvp
              [] key = cy_oos_percent -> oos
              [] key = py_oos_percent -> py
              [] key = percent_volume_change -> pvc
              [] key = cy_volume -> vol
              [] key = period -> p
              [] key = channel -> Str(<<"A">>)] :
        r \in NumericValues, rvp \in NumericValues, oos \in PercentValues,
        py \in {None, Num(5)}, pvc \in {None, Num(5), Dec(50)},
        vol \in NumericValues, p \in PeriodValues}

\* the calls of format_kpi_results: no row, one row, a row after another
FormatCalls ==
    {[fn |-> "format_kpi_results", results |-> results, kpi_info |-> <<>>] :
        results \in {<<>>} \cup {<<row>> : row \in FormatRows}
                    \cup {<<[key \in DOMAIN row |-> None], row>> : row \in FormatRows}}

\* fragments of KPI names: the markers of the rules in both letter cases,
\* their parts, and text that no rule looks for
NameFragments ==
    { <<"S","S","S"," ">>,
      <<"s","s","s">>,
      <<"R","e","v","e","n","u","e">>,
      <<"R","E","V","E","N","U","E"," ">>,
      <<" ","V","o","l","u","m","e">>,
      <<"v","o","l","u","m","e">>,
      <<"7","l","b"," ">>,
      <<"7","L","B">>,
      <<"7","l","b"," ","V","o","l","u","m","e"," ">>,
      <<"S","t","o","r","e"," ">>,
      <<"C","o","u","n","t">>,
      <<"s","t","o","r","e"," ","c","o","u","n","t">>,
      <<"O","O","S">>,
      <<"O","u","t","-","O","f","-","S","t","o","c","k">>,
      <<"o","u","t"," ","o","f"," ","s","t","o","c","k"," ">>,
      <<" ">>,
      <<"O","r","d","e","r","s">> }

\* the calls of map_kpi_name_to_column
KpiNames ==
    {Concat(fs) : fs \in UNION {[1..n -> NameFragments] : n \in 0..MaxNameFrags}}

NameCalls == {[fn |-> "map_kpi_name_to_column", kpi_name |-> name] : name \in KpiNames}

\* names of the descriptors of a metadata file
CatalogNames ==
    { <<"T","o","t","a","l"," ","S","S","S"," ","R","e","v","e","n","u","e">>,
      <<"T","o","t","a","l"," ","R","e","v","e","n","u","e">>,
      <<"7","l","b"," ","V","o","l","u","m","e">>,
      <<"7","l","b"," ","V","o","l","u","m","e"," ","O","O","S">>,
      <<"O","r","d","e","r","s">>,
      <<"T","o","t","a","l"," ","S","t","o","r","e"," ","C","o","u","n","t">> }

\* the calls of get_kpi_mapping: metadata files of up to two descriptors
\* with the ids 1 and 2, and no metadata file
MappingCalls ==
    {[fn |-> "get_kpi_mapping", file |-> None]} \cup
    {[fn |-> "get_kpi_mapping",
      file |-> [descriptors |-> [i \in 1..Len(names) |->
                                    [kpi_id |-> i, kpi_name |-> names[i],
                                     page_name |-> <<"D","r","a","f","t"," ","C","u","s","t","o","m","e","r"," ","A">>]]]] :
        names \in UNION {[1..n -> CatalogNames] : n \in 0..2}}

\* n rows of which the first k1 have a null cy_revenue and the last k2 a
\* null cy_volume
QualityRows(n, k1, k2) ==
    [i \in 1..n |->
        [key \in {period, cy_revenue, cy_volume} |->
            CASE key = period -> Str(<<"2","0","2","4","-","0","1","-","0","1">>)
              [] key = cy_revenue -> IF i <= k1 THEN None ELSE Num(100)
              [] key = cy_volume -> IF i > n - k2 THEN None ELSE Num(100)]]

py_revenue == RevenueSiblings[1]

\* k rows with the value a in cy_revenue and py_revenue, then a row with
\* the value b, then a row with the value c; store_count is 1 in every row
OutlierRows(k, a, b, c) ==
    [i \in 1..(k + 2) |->
        [key \in {cy_revenue, py_revenue, store_count} |->
            IF key = store_count THEN Num(1)
            ELSE IF i <= k THEN a
            ELSE IF i = k + 1 THEN b
            ELSE c]]

\* the calls of validate_data_quality
QualityCalls ==
    {[fn |-> "validate_data_quality", results |-> QualityRows(t[1], t[2], t[3])] :
        t \in {u \in (0..MaxQualityRows) \X (0..MaxQualityRows) \X (0..MaxQualityRows) :
                  u[2] <= u[1] /\ u[3] <= u[1]}}
    \cup
    {[fn |-> "validate_data_quality", results |-> OutlierRows(k, a, b, c)] :
        k \in 0..(MaxQualityRows + 2),
        a \in {Num(0), Num(1), Num(-1)},
        b \in {None, Num(0), Num(1), Num(10), Num(55), Num(56), Num(-100)},
        c \in {None, Num(-1), Num(56)}}

InitKpiFunctions ==
    /\ vquery = <<>>
    /\ vresult = NotReturned
    /\ kcall \in BuildQueryCalls \cup FormatCalls \cup QualityCalls \cup NameCalls \cup MappingCalls
    /\ kresult = NotReturned
    /\ entry = "none"
    /\ event = <<>>
    /\ InitHandlerState
    /\ metadata_file = None
    /\ KPI_MAPPING_CACHE = None

\* lines 547-550 of lambda_handler: parse_date_range, then build_kpi_query
\* with the mapping that get_cached_kpi_mapping returns
BuildKpiQuery ==
    /\ kcall.fn = "build_kpi_query"
    /\ kresult = NotReturned
    /\ \E dates \in {parse_date_range(kcall.date_range)} :
          kresult' =
             IF ~dates.ok \/ ~get_last_day_of_month(dates.end_date).ok
             THEN [returned |-> TRUE, ok |-> FALSE]
             ELSE [returned |-> TRUE, ok |-> TRUE,
                   value |-> build_kpi_query(kcall.kpi_ids, dates.start_date, dates.end_date,
                                             "monthly", "default", kcall.kpi_mapping.mapping)]
    /\ UNCHANGED <<vquery, vresult, kcall, hvars>>

FormatKpiResults ==
    /\ kcall.fn = "format_kpi_results"
    /\ kresult = NotReturned
    /\ kresult' = [returned |-> TRUE, ok |-> TRUE,
                   value |-> format_kpi_results(kcall.results, kcall.kpi_info)]
    /\ UNCHANGED <<vquery, vresult, kcall, hvars>>

ValidateDataQuality ==
    /\ kcall.fn = "validate_data_quality"
    /\ kresult = NotReturned
    /\ kresult' = [returned |-> TRUE, ok |-> TRUE, value |-> validate_data_quality(kcall.results)]
    /\ UNCHANGED <<vquery, vresult, kcall, hvars>>

MapKpiNameToColumn ==
    /\ kcall.fn = "map_kpi_name_to_column"
    /\ kresult = NotReturned
    /\ kresult' = [returned |-> TRUE, ok |-> TRUE, value |-> map_kpi_name_to_column(kcall.kpi_name)]
    /\ UNCHANGED <<vquery, vresult, kcall, hvars>>

GetKpiMapping ==
    /\ kcall.fn = "get_kpi_mapping"
    /\ kresult = NotReturned
    /\ kresult' = [returned |-> TRUE, ok |-> TRUE, value |-> Dict(get_kpi_mapping(kcall.file))]
    /\ UNCHANGED <<vquery, vresult, kcall, hvars>>

NextKpiFunctions ==
    \/ BuildKpiQuery
    \/ FormatKpiResults
    \/ ValidateDataQuality
    \/ MapKpiNameToColumn
    \/ GetKpiMapping

SpecKpiFunctions == InitKpiFunctions /\ [][NextKpiFunctions]_vars

\* ------------------------------------------------------------------------
\* Specification of the cache: the threads of one process make their first
\* call of get_cached_kpi_mapping; a thread switch can happen between any
\* two accesses to the module-level variable
\* ------------------------------------------------------------------------
Callers == 1..MaxCallers

NothingBuilt == [built |-> FALSE]

NothingReturned == [returned |-> FALSE]

InitCache ==
    /\ vquery = <<>>
    /\ vresult = NotReturned
    /\ kcall = NoCall
    /\ kresult = NotReturned
    /\ entry = "none"
    /\ event = <<>>
    /\ pc = "start"
    /\ locals = NoLocals
    /\ connection = "None"
    /\ cursor = "None"
    /\ db = EmptyDb
    /\ pending = NoPending
    /\ outcome = Running
    /\ metadata_file \in MetadataFiles
    /\ KPI_MAPPING_CACHE = None
    /\ callers = [t \in Callers |-> [pc |-> "test", mapping |-> NothingBuilt,
                                     result |-> NothingReturned]]
    /\ builds = 0
    /\ stores = 0
    /\ InitAgentGlobals
    /\ invocations = NoInvocations

\* if _KPI_MAPPING_CACHE is None
TestCache(t) ==
    /\ callers[t].pc = "test"
    /\ callers' = [callers EXCEPT ![t].pc =
                      IF KPI_MAPPING_CACHE = None THEN "build" ELSE "return"]
    /\ UNCHANGED <<vvars, entry, event, pc, locals, connection, cursor, db, pending, outcome,
                   KPI_MAPPING_CACHE, metadata_file, builds, stores, avars>>

\* the call get_kpi_mapping() on the right of the assignment
BuildMapping(t) ==
    /\ callers[t].pc = "build"
    /\ callers' = [callers EXCEPT ![t].pc = "store",
                                  ![t].mapping = Dict(get_kpi_mapping(metadata_file))]
    /\ builds' = builds + 1
    /\ UNCHANGED <<vvars, entry, event, pc, locals, connection, cursor, db, pending, outcome,
                   KPI_MAPPING_CACHE, metadata_file, stores, avars>>

\* _KPI_MAPPING_CACHE = <the value that get_kpi_mapping returned>
StoreCache(t) ==
    /\ callers[t].pc = "store"
    /\ KPI_MAPPING_CACHE' = callers[t].mapping
    /\ stores' = stores + 1
    /\ callers' = [callers EXCEPT ![t].pc = "return"]
    /\ UNCHANGED <<vvars, entry, event, pc, locals, connection, cursor, db, pending, outcome,
                   metadata_file, builds, avars>>

\* return _KPI_MAPPING_CACHE
ReturnCache(t) ==
    /\ callers[t].pc = "return"
    /\ callers' = [callers EXCEPT ![t].pc = "done",
                                  ![t].result = [returned |-> TRUE, value |-> KPI_MAPPING_CACHE]]
    /\ UNCHANGED <<vvars, entry, event, pc, locals, connection, cursor, db, pending, outcome,
                   KPI_MAPPING_CACHE, metadata_file, builds, stores, avars>>

NextCache ==
    \/ \E t \in Callers : TestCache(t)
    \/ \E t \in Callers : BuildMapping(t)
    \/ \E t \in Callers : StoreCache(t)
    \/ \E t \in Callers : ReturnCache(t)

SpecCache == InitCache /\ [][NextCache]_vars

\* ------------------------------------------------------------------------
\* Specification of the browser agent: the threads of the runtime call the
\* entrypoint invoke, and health_check, at any time
\* ------------------------------------------------------------------------
max_concurrent_requests == 1

Invokers == 1..MaxInvokers

\* a thread that is not inside invoke
Idle == [pc |-> "idle", admitted |-> FALSE, session |-> FALSE, releases |-> 0, result |-> "none"]

\* the ways the try block of an admitted invocation ends without a browser
\* session: the returns for a missing API key, a missing parameter and an
\* unknown action, and the except clause for a payload without get()
EarlyResults ==
    {"NOVA_ACT_API_KEY not configured", "Missing parameter", "Unknown action", "Exception"}

\* the ways an invocation with a browser session ends: the result of the
\* session, or the failure response made from the exception it raised
BrowserResults == {"success", "browser exception"}

InitAgent ==
    /\ vquery = <<>>
    /\ vresult = NotReturned
    /\ kcall = NoCall
    /\ kresult = NotReturned
    /\ entry = "none"
    /\ event = <<>>
    /\ pc = "start"
    /\ locals = NoLocals
    /\ connection = "None"
    /\ cursor = "None"
    /\ db = EmptyDb
    /\ pending = NoPending
    /\ outcome = Running
    /\ metadata_file = None
    /\ KPI_MAPPING_CACHE = None
    /\ callers = NoCallers
    /\ builds = 0
    /\ stores = 0
    /\ InitAgentGlobals
    /\ invocations = [t \in Invokers |-> Idle]

AgentFrame ==
    UNCHANGED <<vvars, entry, event, pc, locals, connection, cursor, db, pending, outcome,
                KPI_MAPPING_CACHE, metadata_file, tvars>>

\* the runtime calls invoke on thread t
Invoke(t) ==
    /\ invocations[t].pc = "idle"
    /\ arrivals < MaxInvocations
    /\ arrivals' = arrivals + 1
    /\ invocations' = [invocations EXCEPT ![t] = [Idle EXCEPT !.pc = "acquire"]]
    /\ UNCHANGED <<agent_busy, active_requests, request_lock, ping>>
    /\ AgentFrame

\* with _request_lock: the thread waits until the lock is free
AcquireForAdmission(t) ==
    /\ invocations[t].pc = "acquire"
    /\ request_lock = 0
    /\ request_lock' = t
    /\ invocations' = [invocations EXCEPT ![t].pc = "check"]
    /\ UNCHANGED <<agent_busy, active_requests, arrivals, ping>>
    /\ AgentFrame

\* faulty variant: one request more than the maximum is let in
at_capacity_exceeded_only(active) == active > max_concurrent_requests

\* if _active_requests >= _max_concurrent_requests
at_capacity(active) == active >= max_concurrent_requests

\* the body of the first with block: the "Agent busy" return, which leaves
\* the block and the function, or the admission
CheckCapacity(t) ==
    /\ invocations[t].pc = "check"
    /\ IF at_capacity(active_requests)
       THEN /\ invocations' = [invocations EXCEPT ![t].pc = "idle", ![t].result = "Agent busy"]
            /\ UNCHANGED <<agent_busy, active_requests>>
       ELSE /\ active_requests' = active_requests + 1
            /\ agent_busy' = TRUE
            /\ invocations' = [invocations EXCEPT ![t].pc = "try", ![t].admitted = TRUE]
    /\ request_lock' = 0
    /\ UNCHANGED <<arrivals, ping>>
    /\ AgentFrame

\* faulty variant: the return leaves the function without the finally block
ReturnEarly_unreleased(t) ==
    /\ invocations[t].pc = "try"
    /\ \E result \in EarlyResults :
          invocations' = [invocations EXCEPT ![t].pc = "idle", ![t].result = result]
    /\ UNCHANGED <<agent_busy, active_requests, request_lock, arrivals, ping>>
    /\ AgentFrame

\* the try block returns, or raises into the except clause, before a
\* browser session is created
ReturnEarly(t) ==
    /\ invocations[t].pc = "try"
    /\ \E result \in EarlyResults :
          invocations' = [invocations EXCEPT ![t].pc = "finally", ![t].result = result]
    /\ UNCHANGED <<agent_busy, active_requests, request_lock, arrivals, ping>>
    /\ AgentFrame

\* search_company_info, extract_web_data or create_browser_session starts
\* a browser session
StartBrowserSession(t) ==
    /\ invocations[t].pc = "try"
    /\ invocations' = [invocations EXCEPT ![t].pc = "browsing", ![t].session = TRUE]
    /\ UNCHANGED <<agent_busy, active_requests, request_lock, arrivals, ping>>
    /\ AgentFrame

\* the browser session ends with a result or with an exception, which an
\* except clause turns into a failure response
EndBrowserSession(t) ==
    /\ invocations[t].pc = "browsing"
    /\ \E result \in BrowserResults :
          invocations' = [invocations EXCEPT ![t].pc = "finally", ![t].result = result]
    /\ UNCHANGED <<agent_busy, active_requests, request_lock, arrivals, ping>>
    /\ AgentFrame

\* finally: with _request_lock: the thread waits until the lock is free
AcquireForRelease(t) ==
    /\ invocations[t].pc = "finally"
    /\ request_lock = 0
    /\ request_lock' = t
    /\ invocations' = [invocations EXCEPT ![t].pc = "release"]
    /\ UNCHANGED <<agent_busy, active_requests, arrivals, ping>>
    /\ AgentFrame

\* the body of the with block of the finally clause, then the return
ReleaseSlot(t) ==
    /\ invocations[t].pc = "release"
    /\ active_requests' = active_requests - 1
    /\ agent_busy' = IF active_requests - 1 = 0 THEN FALSE ELSE agent_busy
    /\ request_lock' = 0
    /\ invocations' = [invocations EXCEPT ![t].pc = "idle", ![t].releases = @ + 1]
    /\ UNCHANGED <<arrivals, ping>>
    /\ AgentFrame

\* health_check reads _agent_busy without the lock
HealthCheck ==
    /\ ping' = IF agent_busy THEN "HEALTHY_BUSY" ELSE "HEALTHY"
    /\ ping' # ping
    /\ UNCHANGED <<agent_busy, active_requests, request_lock, invocations, arrivals>>
    /\ AgentFrame

NextAgent ==
    \/ \E t \in Invokers : Invoke(t)
    \/ \E t \in Invokers : AcquireForAdmission(t)
    \/ \E t \in Invokers : CheckCapacity(t)
    \/ \E t \in Invokers : ReturnEarly(t)
    \/ \E t \in Invokers : StartBrowserSession(t)
    \/ \E t \in Invokers : EndBrowserSession(t)
    \/ \E t \in Invokers : AcquireForRelease(t)
    \/ \E t \in Invokers : ReleaseSlot(t)
    \/ HealthCheck

SpecAgent == InitAgent /\ [][NextAgent]_vars

\* ------------------------------------------------------------------------
\* Properties of validate_sql_security
\* ------------------------------------------------------------------------
\* verb occurs in q as a standalone word, in any letter case: it is neither
\* preceded nor followed by a letter, a digit or an underscore
OccursStandalone(verb, q) ==
    \E i \in 1..Len(q) :
        /\ i + Len(verb) - 1 <= Len(q)
        /\ \A k \in 1..Len(verb) : UpperChar(q[i + k - 1]) = verb[k]
        /\ (i > 1 => ~IsWordChar(q[i - 1]))
        /\ (i + Len(verb) <= Len(q) => ~IsWordChar(q[i + Len(verb)]))

ForbiddenVerbs == Range(FORBIDDEN_OPERATIONS)

StandaloneVerbs(q) == {verb \in ForbiddenVerbs : OccursStandalone(verb, q)}

\* position of a verb in the list of forbidden operations
ListIndex(verb) == CHOOSE k \in 1..Len(FORBIDDEN_OPERATIONS) : FORBIDDEN_OPERATIONS[k] = verb

\* number of ';'-delimited fragments of q that hold a non-blank character:
\* the positions that are the first non-blank character of their fragment
NonBlankFragments(q) ==
    Cardinality({i \in 1..Len(q) :
        /\ q[i] \notin Whitespace \cup {";"}
        /\ \A j \in 1..(i - 1) :
              (\A k \in j..(i - 1) : q[k] # ";") => q[j] \in Whitespace})

\* the trimmed, uppercased text of q begins with SELECT
BeginsWithSelect(q) ==
    \E i \in 1..Len(q) :
        /\ \A j \in 1..(i - 1) : q[j] \in Whitespace
        /\ i + 5 <= Len(q)
        /\ \A k \in 1..6 : UpperChar(q[i + k - 1]) = SELECT[k]

Rejected == vresult # NotReturned /\ ~vresult.valid

RejectedAsForbidden ==
    Rejected /\ vresult.error.words = ForbiddenError(<<>>).words

\* C1 (as stated): every forbidden verb that the query contains as a
\* standalone word is named by the error of the rejection.
C1_AsStated ==
    vresult # NotReturned =>
        \A verb \in StandaloneVerbs(vquery) :
            RejectedAsForbidden /\ vresult.error.operation = verb

\* C1 (amended): a query that contains a forbidden verb as a standalone
\* word, in any letter case, is rejected with the forbidden-operation error
\* naming the first verb of FORBIDDEN_OPERATIONS that it contains (so the
\* verb itself when it contains only one); a query that contains forbidden
\* verbs only inside longer identifiers is not rejected by this rule.
C1_ForbiddenVerbRejected ==
    vresult # NotReturned =>
        /\ StandaloneVerbs(vquery) # {} =>
              /\ RejectedAsForbidden
              /\ vresult.error.operation \in StandaloneVerbs(vquery)
              /\ \A verb \in StandaloneVerbs(vquery) :
                    ListIndex(vresult.error.operation) <= ListIndex(verb)
        /\ StandaloneVerbs(vquery) = {} => ~RejectedAsForbidden

\* a query with two different standalone verbs has been rejected
C1_Witness ==
    /\ RejectedAsForbidden
    /\ Cardinality(StandaloneVerbs(vquery)) >= 2

\* C3: a query with more than one non-empty ';'-delimited fragment is
\* rejected; a single SELECT statement (no forbidden verb) is accepted also
\* when only semicolons and whitespace follow it.
C3_MultipleStatements ==
    vresult # NotReturned =>
        /\ NonBlankFragments(vquery) > 1 => ~vresult.valid
        /\ ( /\ NonBlankFragments(vquery) = 1
             /\ BeginsWithSelect(vquery)
             /\ StandaloneVerbs(vquery) = {} ) => vresult.valid

\* a two-statement query without forbidden verb has been rejected as such
C3_Witness ==
    /\ Rejected
    /\ NonBlankFragments(vquery) > 1
    /\ vresult.error = MultipleStatementsError

\* a single statement with a trailing semicolon has been accepted
C3_TrailingSemicolonAccepted ==
    /\ vresult # NotReturned
    /\ vresult.valid
    /\ Len(vquery) > 0
    /\ vquery[Len(vquery)] \in Whitespace \cup {";"}
    /\ ";" \in Range(vquery)

\* C4: a query whose trimmed, uppercased text does not begin with SELECT is
\* rejected; every accepted query begins with SELECT, contains no forbidden
\* verb as a whole word and has at most one non-empty fragment.
C4_OnlySelect ==
    vresult # NotReturned =>
        /\ ~BeginsWithSelect(vquery) => ~vresult.valid
        /\ vresult.valid =>
              /\ BeginsWithSelect(vquery)
              /\ StandaloneVerbs(vquery) = {}
              /\ NonBlankFragments(vquery) <= 1

\* a query that breaks only the SELECT rule has been rejected by it
C4_Witness ==
    /\ Rejected
    /\ vquery # <<>>
    /\ ~BeginsWithSelect(vquery)
    /\ StandaloneVerbs(vquery) = {}
    /\ NonBlankFragments(vquery) <= 1
    /\ vresult.error = OnlySelectError

\* C21: the error returned is that of the first rule violated in the order
\* forbidden verb, multiple statements, non-SELECT: a query with a
\* standalone forbidden verb is reported as a forbidden operation whatever
\* else it violates; without such a verb, several statements are reported
\* as multiple statements also when the text does not begin with SELECT;
\* the non-SELECT error is returned only when the two other rules hold.
C21_RuleOrder ==
    vresult # NotReturned =>
        /\ StandaloneVerbs(vquery) # {} => RejectedAsForbidden
        /\ (StandaloneVerbs(vquery) = {} /\ NonBlankFragments(vquery) > 1) =>
              (Rejected /\ vresult.error = MultipleStatementsError)
        /\ (StandaloneVerbs(vquery) = {} /\ NonBlankFragments(vquery) <= 1
                                        /\ ~BeginsWithSelect(vquery)) =>
              (Rejected /\ vresult.error = OnlySelectError)

\* a query of two statements that begins with SELECT and holds a forbidden
\* verb has been reported as a forbidden operation
C21_Witness ==
    /\ RejectedAsForbidden
    /\ BeginsWithSelect(vquery)
    /\ NonBlankFragments(vquery) > 1

\* a query of two statements that does not begin with SELECT and holds no
\* forbidden verb has been reported as multiple statements
C21_MultipleBeforeSelect ==
    /\ Rejected
    /\ StandaloneVerbs(vquery) = {}
    /\ ~BeginsWithSelect(vquery)
    /\ NonBlankFragments(vquery) > 1
    /\ vresult.error = MultipleStatementsError

\* ------------------------------------------------------------------------
\* Properties of the handlers
\* ------------------------------------------------------------------------
StatusOf(response) ==
    IF "statusCode" \in DOMAIN response
    THEN response.statusCode
    ELSE response.response.httpStatusCode

BodyOf(response) ==
    IF "body" \in DOMAIN response
    THEN response.body
    ELSE response.response.responseBody

HasReturned == outcome.kind = "returned"

\* the event has a dictionary of parameters
SqlParametersReadable ==
    event.format \in {"bedrock", "bedrock_no_properties", "body", "direct"}

RawQuery == Get(event.parameters, "sql_query", Get(event.parameters, "query", Str(<<>>)))

RawOrgId == Get(event.parameters, "org_id", Str(<<>>))

\* a parameter is missing: absent, or a text that is empty after trimming
IsMissing(raw) ==
    raw.type = "str" /\ \A i \in 1..Len(raw.value) : raw.value[i] \in Whitespace

QueryMissing == SqlParametersReadable /\ IsMissing(RawQuery)

OrgIdMissing == SqlParametersReadable /\ IsMissing(RawOrgId)

\* the query is present and validate_sql_security rejects it
SecurityRejects ==
    /\ SqlParametersReadable
    /\ RawQuery.type = "str"
    /\ ~IsMissing(RawQuery)
    /\ ~validate_sql_security(Strip(RawQuery.value)).valid

NoDatabaseAction == db = EmptyDb /\ connection = "None" /\ cursor = "None"

\* C2: in the free-form handler, an invocation whose query or org_id is
\* missing or whose query fails the security validation never opens a
\* connection nor submits a statement; no invocation answered with status
\* 400 or 403 has acted on the database.
C2_NoDatabaseOnRejection ==
    entry = "sql" =>
        /\ (QueryMissing \/ OrgIdMissing \/ SecurityRejects) => NoDatabaseAction
        /\ (HasReturned /\ StatusOf(outcome.response) \in {400, 403}) => NoDatabaseAction

\* an invocation has been answered 403 for a query that fails the validation
C2_Witness ==
    /\ entry = "sql"
    /\ SecurityRejects
    /\ HasReturned
    /\ StatusOf(outcome.response) = 403
    /\ NoDatabaseAction

\* execute_query has returned a result (it has not raised)
ExecuteQueryReported(success) ==
    pending.kind = "return" /\ pending.value.success = success

\* C5 (as stated): the status code of the free-form handler is 400 when
\* query or org_id is missing, 403 when the security validation fails, 500
\* when execute_query reports success=false, and 200 exactly when
\* execute_query reports success=true.
C5_AsStated ==
    (entry = "sql" /\ pc = "done" /\ HasReturned) =>
        /\ (QueryMissing \/ OrgIdMissing) => StatusOf(outcome.response) = 400
        /\ (~QueryMissing /\ ~OrgIdMissing /\ SecurityRejects)
              => StatusOf(outcome.response) = 403
        /\ ExecuteQueryReported(FALSE) => StatusOf(outcome.response) = 500
        /\ StatusOf(outcome.response) = 200 <=> ExecuteQueryReported(TRUE)

\* C6 (as stated): when execute_query is left, by a return or by an
\* exception, no connection and no cursor opened by it is still open.
C6_AsStated ==
    (entry = "sql" /\ pc \in {"exit", "done"}) =>
        connection # "open" /\ cursor # "open"

\* C7 (as stated): when the KPI handler has returned its response, the
\* connection and the cursor of the invocation are released.
C7_AsStated ==
    (entry = "kpi" /\ pc = "done") =>
        connection # "open" /\ cursor # "open"

\* the database has reported the execution-interrupted error for the user
\* query
UserQueryInterrupted ==
    \E i \in 1..Len(db.statements) :
        /\ db.statements[i].statement.kind = "user"
        /\ db.statements[i].result = "interrupted"

\* C8 (as stated): whenever the database reports the execution-interrupted
\* error for the user query, execute_query returns success=false with empty
\* data, row_count 0 and a non-null error that contains the word "timeout".
C8_AsStated ==
    (entry = "sql" /\ pc \in {"exit", "done"} /\ UserQueryInterrupted) =>
        /\ pending.kind = "return"
        /\ pending.value.success = FALSE
        /\ pending.value.data = <<>>
        /\ pending.value.row_count = 0
        /\ pending.value.error # None
        /\ "timeout" \in Range(pending.value.error.words)

\* C9 (as stated): no invocation of either entry point ends with an
\* exception escaping the handler.
C9_AsStated == outcome.kind # "raised"

IsAgentEnvelope(response) == "response" \in DOMAIN response

\* C11 (as stated): whenever the event carries action-group and API-path
\* identifiers, the agent-facing envelope returned by either entry point
\* carries the same identifiers, on success and on error responses.
C11_AsStated ==
    (/\ HasReturned
     /\ IsAgentEnvelope(outcome.response)
     /\ {"actionGroup", "apiPath"} \subseteq DOMAIN event.ids) =>
        /\ outcome.response.response.actionGroup = event.ids.actionGroup
        /\ outcome.response.response.apiPath = event.ids.apiPath

\* ------------------------------------------------------------------------
\* Properties of the functions of get_kpi_data
\* ------------------------------------------------------------------------
\* the Gregorian rule: a year is a leap year when it is divisible by 400, or
\* by 4 and not by 100
GregorianLeapYear(year) == year % 400 = 0 \/ (year % 4 = 0 /\ year % 100 # 0)

LastDayOfMonth(year, month) ==
    IF month = 2 /\ GregorianLeapYear(year)
    THEN 29
    ELSE <<31, 28, 31, 30, 31, 30, 31, 31, 30, 31, 30, 31>>[month]

\* build_kpi_query has been called for a date range "Y1-M1 to Y2-M2"
BuiltForYearMonths ==
    kcall.fn = "build_kpi_query" /\ kcall.given # <<>> /\ kresult # NotReturned

LowerBound(query) == query.where_clauses[1]

UpperBound(query) == query.where_clauses[2]

\* C12: for every date range "Y1-M1 to Y2-M2" the query is built, its lower
\* bound is mon_year >= Y1-M1-01 and its upper bound is mon_year <= the last
\* calendar day of month M2 of year Y2 under the Gregorian leap-year rule.
C12_DateBounds ==
    BuiltForYearMonths =>
        /\ kresult.ok
        /\ LowerBound(kresult.value.query) =
              [column |-> "mon_year", op |-> ">=",
               value |-> YearMonth(kcall.given[1], kcall.given[2]) \o <<"-","0","1">>]
        /\ UpperBound(kresult.value.query) =
              [column |-> "mon_year", op |-> "<=",
               value |-> YearMonth(kcall.given[3], kcall.given[4]) \o <<"-">>
                         \o TwoDigits(LastDayOfMonth(kcall.given[3], kcall.given[4]))]

\* the query has been built for a range that ends in February 1900, which
\* has 28 days
C12_Witness ==
    /\ BuiltForYearMonths
    /\ kcall.given[3] = 1900 /\ kcall.given[4] = 2
    /\ UpperBound(kresult.value.query).value = <<"1","9","0","0","-","0","2","-","2","8">>

\* build_kpi_query has returned a query
QueryBuilt == kcall.fn = "build_kpi_query" /\ kresult # NotReturned /\ kresult.ok

\* the chains of the requested ids that the mapping holds
ImplicatedChains ==
    {kcall.kpi_mapping.mapping[id].chain :
        id \in Range(kcall.kpi_ids) \cap DOMAIN kcall.kpi_mapping.mapping}

\* C16: the query has a parent_chain_group constraint if and only if the
\* resolved ids implicate exactly one distinct chain, and the constraint
\* then admits that chain only; otherwise the two date bounds are its only
\* constraints.
C16_ChainConstraint ==
    QueryBuilt =>
        LET where_clauses == kresult.value.query.where_clauses
        IN  /\ \A i \in {1, 2} : where_clauses[i].column = "mon_year"
            /\ IF Cardinality(ImplicatedChains) = 1
               THEN /\ Len(where_clauses) = 3
                    /\ where_clauses[3] = [column |-> "parent_chain_group", op |-> "IN",
                                           value |-> ImplicatedChains]
               ELSE Len(where_clauses) = 2

\* two different ids of one chain have been resolved and the query is
\* constrained to that chain
C16_Witness ==
    /\ QueryBuilt
    /\ Len(kresult.value.kpi_info) = 2
    /\ kresult.value.kpi_info[1].kpi_id # kresult.value.kpi_info[2].kpi_id
    /\ Cardinality(ImplicatedChains) = 1
    /\ Len(kresult.value.query.where_clauses) = 3

\* the columns of the requested ids that the mapping holds
ResolvedColumns ==
    {kcall.kpi_mapping.mapping[id].column :
        id \in Range(kcall.kpi_ids) \cap DOMAIN kcall.kpi_mapping.mapping}

\* the sibling columns that the resolved columns call for, in their order
ExpectedSiblings ==
    (IF ResolvedColumns \cap {cy_revenue, cy_sss_revenue} # {} THEN RevenueSiblings ELSE <<>>)
    \o (IF ResolvedColumns \cap {cy_volume, cy_sss_volume} # {} THEN VolumeSiblings ELSE <<>>)
    \o (IF cy_oos_percent \in ResolvedColumns THEN OosSiblings ELSE <<>>)

\* C24: the column list of the query has no duplicate; it is the five
\* fixed columns in their order, then the columns of the resolved ids, each
\* once, then exactly the sibling columns whose trigger is among them, for
\* every sequence of requested ids, repeated ids included.
C24_ColumnList ==
    QueryBuilt =>
        LET columns == kresult.value.query.select_columns
            n == Cardinality(ResolvedColumns)
        IN  /\ \A i, j \in 1..Len(columns) : columns[i] = columns[j] => i = j
            /\ Len(columns) = 5 + n + Len(ExpectedSiblings)
            /\ SubSeq(columns, 1, 5) = FixedProjection
            /\ {columns[i] : i \in 6..(5 + n)} = ResolvedColumns
            /\ SubSeq(columns, 6 + n, Len(columns)) = ExpectedSiblings

\* an id requested twice and an id of cy_sss_revenue: two resolved columns
\* and the three revenue siblings
C24_Witness ==
    /\ QueryBuilt
    /\ Len(kcall.kpi_ids) = 2
    /\ kcall.kpi_ids[1] = 6
    /\ kcall.kpi_ids[2] = 6
    /\ ResolvedColumns = {cy_sss_revenue}
    /\ Len(kresult.value.query.select_columns) = 9

\* the text occurs in the name, in any letter case
Mentions(name, text) == Contains(Lower(name), text)

\* the rules of the mapping in their order: what the name must mention
RuleMatches(k, name) ==
    CASE k = 1 -> Mentions(name, <<"s","s","s"," ","r","e","v","e","n","u","e">>)
      [] k = 2 -> Mentions(name, <<"r","e","v","e","n","u","e">>)
      [] k = 3 -> Mentions(name, <<"s","s","s"," ","v","o","l","u","m","e">>)
      [] k = 4 -> Mentions(name, <<"v","o","l","u","m","e">>) /\ ~Mentions(name, <<"7","l","b">>)
      [] k = 5 -> Mentions(name, <<"s","t","o","r","e"," ","c","o","u","n","t">>)
      [] k = 6 -> \/ Mentions(name, <<"o","o","s">>)
                  \/ Mentions(name, <<"o","u","t","-","o","f","-","s","t","o","c","k">>)
                  \/ Mentions(name, <<"o","u","t"," ","o","f"," ","s","t","o","c","k">>)

RuleColumns ==
    <<cy_sss_revenue, cy_revenue, cy_sss_volume, cy_volume, store_count, cy_oos_percent>>

MatchingRules(name) == {k \in 1..6 : RuleMatches(k, name)}

FirstMatchingRule(name) ==
    CHOOSE k \in MatchingRules(name) : \A j \in MatchingRules(name) : k <= j

\* C25: map_kpi_name_to_column returns the column of the first rule of the
\* ordered list that the name matches, and None when it matches no rule;
\* in the mapping built from a metadata file, the id of a name that matches
\* no rule is absent and the id of any other name has the one column of
\* the first rule its name matches.
C25_FirstMatchWins ==
    /\ (kcall.fn = "map_kpi_name_to_column" /\ kresult # NotReturned) =>
          IF MatchingRules(kcall.kpi_name) = {}
          THEN kresult.value = None
          ELSE kresult.value = Str(RuleColumns[FirstMatchingRule(kcall.kpi_name)])
    /\ (kcall.fn = "get_kpi_mapping" /\ kresult # NotReturned /\ kcall.file # None) =>
          \A i \in 1..Len(kcall.file.descriptors) :
              LET kpi == kcall.file.descriptors[i]
              IN  IF MatchingRules(kpi.kpi_name) = {}
                  THEN kpi.kpi_id \notin DOMAIN kresult.value.mapping
                  ELSE /\ kpi.kpi_id \in DOMAIN kresult.value.mapping
                       /\ kresult.value.mapping[kpi.kpi_id].column =
                              RuleColumns[FirstMatchingRule(kpi.kpi_name)]

\* a name that matches the rules of "sss revenue" and of "revenue" has been
\* given cy_sss_revenue
C25_Witness ==
    /\ kcall.fn = "map_kpi_name_to_column"
    /\ kresult # NotReturned
    /\ {1, 2} \subseteq MatchingRules(kcall.kpi_name)
    /\ kresult.value = Str(cy_sss_revenue)

\* a name with "volume" and "7lb" and an out-of-stock marker has been given
\* cy_oos_percent
C25_SkippedVolume ==
    /\ kcall.fn = "map_kpi_name_to_column"
    /\ kresult # NotReturned
    /\ Mentions(kcall.kpi_name, <<"v","o","l","u","m","e">>)
    /\ Mentions(kcall.kpi_name, <<"7","l","b">>)
    /\ kresult.value = Str(cy_oos_percent)

\* a metadata file of a mapped and an unmapped descriptor has given a
\* mapping of one id
C25_UnmappedAbsent ==
    /\ kcall.fn = "get_kpi_mapping"
    /\ kresult # NotReturned
    /\ kcall.file # None
    /\ Len(kcall.file.descriptors) = 2
    /\ DOMAIN kresult.value.mapping = {1}

\* format_kpi_results has returned
ResultsFormatted == kcall.fn = "format_kpi_results" /\ kresult # NotReturned

\* C17: for every row and every column whose name contains "revenue",
\* format_kpi_results keeps a non-null raw value unchanged and adds the twin
\* <column>_formatted with the currency format; it keeps a null and adds no
\* twin for it.
C17_CurrencyTwin ==
    ResultsFormatted =>
        \A i \in 1..Len(kcall.results) :
            \A key \in {k \in DOMAIN kcall.results[i] :
                            Contains(k, <<"r","e","v","e","n","u","e">>)} :
                LET raw == kcall.results[i][key]
                    formatted_row == kresult.value[i]
                    twin == key \o <<"_","f","o","r","m","a","t","t","e","d">>
                IN  IF raw # None
                    THEN /\ formatted_row[key] = raw
                         /\ twin \in DOMAIN formatted_row
                         /\ formatted_row[twin] = Formatted("${value:,.2f}", raw.value)
                    ELSE /\ formatted_row[key] = None
                         /\ twin \notin DOMAIN formatted_row

\* a row with a revenue of 1500 and a null revenue_variance_percent has
\* been formatted
C17_Witness ==
    /\ ResultsFormatted
    /\ Len(kcall.results) = 1
    /\ kcall.results[1][cy_revenue] = Num(1500)
    /\ kcall.results[1][revenue_variance_percent] = None
    /\ kresult.value[1][formatted_key(cy_revenue)] = Formatted("${value:,.2f}", 1500)

\* the columns of the formatted rows that reach the percentage branch
PercentColumns(row) ==
    {k \in DOMAIN row :
        /\ Contains(Lower(k), <<"p","e","r","c","e","n","t">>) \/ Contains(Lower(k), <<"o","o","s">>)
        /\ ~Contains(Lower(k), <<"r","e","v","e","n","u","e">>)}

PercentFormats == {"{value * 100:.2f}%", "{value:.2f}%"}

\* C23: every non-null value of a column whose name contains "percent" or
\* "oos", in any letter case, gets a twin in a percentage format, the
\* sibling columns revenue_variance_percent, percent_volume_change and
\* py_oos_percent included.
C23_AsStated ==
    ResultsFormatted =>
        \A i \in 1..Len(kcall.results) :
            \A key \in {k \in DOMAIN kcall.results[i] :
                            \/ Contains(Lower(k), <<"p","e","r","c","e","n","t">>)
                            \/ Contains(Lower(k), <<"o","o","s">>)} :
                kcall.results[i][key] # None =>
                    /\ formatted_key(key) \in DOMAIN kresult.value[i]
                    /\ kresult.value[i][formatted_key(key)].format \in PercentFormats

\* what the code does: the columns whose name also contains "revenue" are
\* formatted as currency, the other ones as percentages
C23_PercentUnlessRevenue ==
    ResultsFormatted =>
        \A i \in 1..Len(kcall.results) :
            /\ \A key \in PercentColumns(kcall.results[i]) :
                  kcall.results[i][key] # None =>
                      /\ formatted_key(key) \in DOMAIN kresult.value[i]
                      /\ kresult.value[i][formatted_key(key)].format \in PercentFormats
            /\ kcall.results[i][revenue_variance_percent] # None =>
                  kresult.value[i][formatted_key(revenue_variance_percent)].format = "${value:,.2f}"

\* a revenue_variance_percent of 1500 has been given a currency twin
C23_CurrencyForPercent ==
    /\ ResultsFormatted
    /\ Len(kcall.results) = 1
    /\ kcall.results[1][revenue_variance_percent] = Num(1500)
    /\ kresult.value[1][formatted_key(revenue_variance_percent)] = Formatted("${value:,.2f}", 1500)

\* the magnitude of a number is below 1
MagnitudeBelowOne(value) ==
    IF value.type = "Decimal"
    THEN value.hundredths < 100 /\ value.hundredths > -100
    ELSE value.value = 0

\* C22: the twin of a non-null value of a percentage column is the value
\* times 100, formatted, exactly when the magnitude of the value is below
\* 1, and the value itself, formatted, otherwise.
C22_AsStated ==
    ResultsFormatted =>
        \A i \in 1..Len(kcall.results) :
            \A key \in PercentColumns(kcall.results[i]) :
                LET raw == kcall.results[i][key]
                    twin == kresult.value[i][formatted_key(key)]
                IN  raw # None =>
                        IF MagnitudeBelowOne(raw)
                        THEN twin = Formatted("{value * 100:.2f}%", times_100(raw))
                        ELSE twin = Formatted("{value:.2f}%", number(raw))

\* what the code does: the value is multiplied by 100 exactly when it is
\* below 1, negative values included
C22_SignedTest ==
    ResultsFormatted =>
        \A i \in 1..Len(kcall.results) :
            \A key \in PercentColumns(kcall.results[i]) :
                LET raw == kcall.results[i][key]
                    twin == kresult.value[i][formatted_key(key)]
                IN  raw # None =>
                        IF MagnitudeBelowOne(raw) \/ less_than_one(raw)
                        THEN twin = Formatted("{value * 100:.2f}%", times_100(raw))
                        ELSE twin = Formatted("{value:.2f}%", number(raw))

\* an out-of-stock percentage of -5 has been formatted as -500
C22_NegativeMultiplied ==
    /\ ResultsFormatted
    /\ Len(kcall.results) = 1
    /\ kcall.results[1][cy_oos_percent] = Num(-5)
    /\ kresult.value[1][formatted_key(cy_oos_percent)] = Formatted("{value * 100:.2f}%", -500)

\* validate_data_quality has returned
QualityValidated == kcall.fn = "validate_data_quality" /\ kresult # NotReturned

\* the number of rows of the call in which the column is null
NullRows(col) ==
    Cardinality({i \in 1..Len(kcall.results) : kcall.results[i][col] = None})

QualityColumns == IF kcall.results = <<>> THEN {} ELSE DOMAIN kcall.results[1]

\* the columns that the messages about null values name
ColumnsNamed(messages) ==
    {m.col : m \in {n \in messages : "count" \in DOMAIN n}}

\* C18: validate_data_quality returns valid=false if and only if the result
\* set is empty or some column is null in strictly more than half of the
\* rows; an issue names each such column; a column null in more than 10%
\* and at most 50% of the rows is named by a warning and by no issue.
C18_NullThresholds ==
    QualityValidated =>
        LET rows == Len(kcall.results)
            over_half == {col \in QualityColumns : NullRows(col) * 2 > rows}
            over_tenth == {col \in QualityColumns :
                              NullRows(col) * 10 > rows /\ NullRows(col) * 2 <= rows}
        IN  /\ kresult.value.valid = FALSE <=> (rows = 0 \/ over_half # {})
            /\ rows > 0 => ColumnsNamed(kresult.value.issues) = over_half
            /\ over_tenth \subseteq ColumnsNamed(kresult.value.warnings)
            /\ (rows > 0 /\ over_half = {}) => kresult.value.valid = TRUE

\* ten rows with six null revenues and three null volumes: invalid, with an
\* issue for the revenue and a warning for the volume
C18_Witness ==
    /\ QualityValidated
    /\ Len(kcall.results) = 10
    /\ NullRows(cy_revenue) = 6
    /\ NullRows(cy_volume) = 3
    /\ kresult.value.valid = FALSE
    /\ ColumnsNamed(kresult.value.issues) = {cy_revenue}
    /\ ColumnsNamed(kresult.value.warnings) = {cy_volume}

\* the rows of the call in which the column is not null
ValueRows(col) ==
    {i \in 1..Len(kcall.results) :
        col \in DOMAIN kcall.results[i] /\ kcall.results[i][col] # None}

\* the sum of the non-null values of the column in the first n rows
RECURSIVE ColumnTotal(_, _)
ColumnTotal(col, n) ==
    IF n = 0 THEN 0
    ELSE ColumnTotal(col, n - 1) + (IF n \in ValueRows(col) THEN kcall.results[n][col].value ELSE 0)

\* the rows whose value exceeds ten times the mean of the non-null values:
\* value > 10 * total / count
RowsAboveTenMeans(col) ==
    {i \in ValueRows(col) :
        kcall.results[i][col].value * Cardinality(ValueRows(col))
            > 10 * ColumnTotal(col, Len(kcall.results))}

\* the messages about outliers
OutlierMessages(messages) == {m \in messages : "outliers" \in DOMAIN m}

FixedNumericColumns == {cy_revenue, cy_volume, cy_oos_percent, store_count}

\* C26: for each of cy_revenue, cy_volume, cy_oos_percent and store_count
\* whose non-null values have a mean other than zero, a warning counts
\* exactly the values above ten times that mean, if there is any; there is
\* no outlier warning for a column of mean zero or for any other column;
\* outliers are never an issue and valid only depends on the issues.
C26_Outliers ==
    (QualityValidated /\ kcall.results # <<>>) =>
        LET total(col) == ColumnTotal(col, Len(kcall.results))
            flagged == {col \in FixedNumericColumns :
                          /\ ValueRows(col) # {}
                          /\ total(col) # 0
                          /\ RowsAboveTenMeans(col) # {}}
        IN  /\ {m.col : m \in OutlierMessages(kresult.value.warnings)} = flagged
            /\ \A m \in OutlierMessages(kresult.value.warnings) :
                  m.outliers = Cardinality(RowsAboveTenMeans(m.col))
            /\ OutlierMessages(kresult.value.issues) = {}
            /\ kresult.value.valid = (ColumnsNamed(kresult.value.issues) = {})

\* twelve revenues of 1 and one of 56: the 56 is the one outlier, and the
\* result is valid
C26_Witness ==
    /\ QualityValidated
    /\ Len(kcall.results) = 13
    /\ ColumnTotal(cy_revenue, 13) = 68
    /\ Cardinality(RowsAboveTenMeans(cy_revenue)) = 1
    /\ OutlierMessages(kresult.value.warnings) = {OutlierMessage(cy_revenue, 1)}
    /\ kresult.value.valid

\* a column of mean zero with values above zero has no outlier warning
C26_ZeroMeanSkipped ==
    /\ QualityValidated
    /\ ValueRows(cy_revenue) # {}
    /\ ColumnTotal(cy_revenue, Len(kcall.results)) = 0
    /\ \E i \in ValueRows(cy_revenue) : kcall.results[i][cy_revenue].value > 0
    /\ OutlierMessages(kresult.value.warnings) = {}

\* ------------------------------------------------------------------------
\* Properties of the KPI handler
\* ------------------------------------------------------------------------
\* the number YYYYMMDD of a date text YYYY-MM-DD
DateNumber(date) == DigitsValue(SelectSeq(date, LAMBDA c : c \in Digits))

\* the KPI queries submitted to the database
SubmittedKpiQueries ==
    {db.statements[i].statement.query :
        i \in {j \in 1..Len(db.statements) : db.statements[j].statement.kind = "kpi"}}

\* C13 (as stated): in every KPI query sent to the database the normalized
\* start date is less than or equal to the normalized end date.
C13_AsStated ==
    \A query \in SubmittedKpiQueries :
        DateNumber(LowerBound(query).value) <= DateNumber(UpperBound(query).value)

\* the event has a dictionary of parameters
KpiParametersReadable ==
    event.format \in {"requestBody", "requestBody_no_properties", "parameters", "direct"}

\* the request names no KPI id
EmptyKpiIds ==
    LET kpi_ids == parse_kpi_ids(Get(event.parameters, "kpi_ids", Str(<<>>)))
    IN  kpi_ids.ok /\ kpi_ids.value = <<>>

\* the text has the form "YYYY-MM to YYYY-MM"
HasYearMonthForm(text) ==
    /\ Len(text) = 18
    /\ \A i \in {1, 2, 3, 4, 6, 7, 12, 13, 14, 15, 17, 18} : text[i] \in Digits
    /\ text[5] = "-" /\ text[16] = "-"
    /\ SubSeq(text, 8, 11) = <<" ","t","o"," ">>

MalformedDateRange ==
    LET date_range == Get(event.parameters, "date_range", Str(<<>>))
    IN  date_range.type # "str" \/ ~HasYearMonthForm(date_range.value)

\* C14 (as stated): in the KPI handler, a request with an empty set of KPI
\* ids or with a date_range that is not of the form "YYYY-MM to YYYY-MM"
\* never opens a connection nor submits a statement, and its response
\* carries an error message.
C14_AsStated ==
    (entry = "kpi" /\ KpiParametersReadable /\ (EmptyKpiIds \/ MalformedDateRange)) =>
        /\ NoDatabaseAction
        /\ HasReturned => "error" \in DOMAIN BodyOf(outcome.response)

\* build_kpi_query has returned to the KPI handler
KpiQueryBuilt == entry = "kpi" /\ locals # NoLocals

\* the request passes the checks of the ids and of the date range
KpiRequestAccepted ==
    LET kpi_ids == parse_kpi_ids(Get(event.parameters, "kpi_ids", Str(<<>>)))
        date_range == Get(event.parameters, "date_range", Str(<<>>))
    IN  /\ entry = "kpi"
        /\ KpiParametersReadable
        /\ kpi_ids.ok /\ kpi_ids.value # <<>>
        /\ date_range.type = "str"
        /\ parse_date_range(date_range.value).ok
        /\ get_last_day_of_month(parse_date_range(date_range.value).end_date).ok

\* C15: kpi_info lists exactly the requested ids that the mapping holds, in
\* request order, each with the column info of the mapping; when no
\* requested id is mapped kpi_info is empty and the query selects the fixed
\* projection only; an accepted request reaches the database whether or
\* not its ids are mapped.
C15_KpiInfo ==
    /\ KpiQueryBuilt =>
          LET kpi_mapping == KPI_MAPPING_CACHE.mapping
              kpi_info == locals.kpi_info
              mapped == SelectSeq(locals.kpi_ids, LAMBDA id : id \in DOMAIN kpi_mapping)
          IN  /\ Len(kpi_info) = Len(mapped)
              /\ \A i \in 1..Len(kpi_info) :
                    /\ kpi_info[i].kpi_id = mapped[i]
                    /\ kpi_info[i].column = kpi_mapping[mapped[i]].column
                    /\ kpi_info[i].name = kpi_mapping[mapped[i]].name
                    /\ kpi_info[i].unit = kpi_mapping[mapped[i]].unit
                    /\ kpi_info[i].chain = kpi_mapping[mapped[i]].chain
              /\ mapped = <<>> =>
                    /\ kpi_info = <<>>
                    /\ locals.query.select_columns = FixedProjection
    /\ (KpiRequestAccepted /\ pc # "start") =>
          /\ KpiQueryBuilt
          /\ pc # "connect" => db.connects = 1

\* a request of which no id is mapped has been executed and answered 200
C15_Witness ==
    /\ KpiQueryBuilt
    /\ locals.kpi_ids # <<>>
    /\ locals.kpi_info = <<>>
    /\ SubmittedKpiQueries = {locals.query}
    /\ HasReturned
    /\ StatusOf(outcome.response) = 200

\* the texts of the user's statements that the free-form executor submitted
SubmittedTexts ==
    {db.statements[i].statement.text :
        i \in {j \in 1..Len(db.statements) : db.statements[j].statement.kind = "user"}}

RequestedMilliseconds ==
    LET raw == Get(event.parameters, "timeout", Num(QUERY_TIMEOUT))
    IN  CASE raw.type = "int" -> raw.value * 1000
          [] raw.type = "float" -> raw.tenths * 100
          [] raw.type = "str" -> int(raw).value * 1000

\* the positions of db.statements at which the cap was set to ms with success
CapSetAt(ms) ==
    {j \in 1..Len(db.statements) :
        /\ db.statements[j].statement.kind = "set_max_execution_time"
        /\ db.statements[j].statement.ms = ms
        /\ db.statements[j].result = "ok"}

UserStatementAt ==
    {i \in 1..Len(db.statements) : db.statements[i].statement.kind = "user"}

\* C28: before the user's statement is submitted the execution-time cap has
\* been set, with success, to the timeout of the request in milliseconds
\* (30000 when the request has none); a failure while setting the cap
\* prevents the submission.
C28_AsStated ==
    entry = "sql" =>
        \A i \in UserStatementAt : \E j \in CapSetAt(RequestedMilliseconds) : j < i

\* what the code does: the cap is the timeout truncated to whole seconds,
\* in milliseconds
C28_CapOfWholeSeconds ==
    entry = "sql" =>
        \A i \in UserStatementAt : \E j \in CapSetAt(locals.timeout * 1000) : j < i

\* a request with a timeout of half a second has had its statement
\* submitted under a cap of 0
C28_CapOfZero ==
    /\ entry = "sql"
    /\ SqlParametersReadable
    /\ "timeout" \in DOMAIN event.parameters
    /\ event.parameters.timeout = Float(5)
    /\ UserStatementAt # {}
    /\ CapSetAt(0) # {}

\* the submissions of the statement the invocation was made for
StatementSubmissions ==
    {i \in 1..Len(db.statements) : db.statements[i].statement.kind \in {"user", "kpi"}}

\* C20: in one invocation of either executor at most one connection is
\* requested and the statement of the invocation is submitted at most once,
\* whatever has failed.
C20_NoRetry ==
    /\ db.connects <= 1
    /\ Cardinality(StatementSubmissions) <= 1

\* the server interrupted the user's statement and the invocation has
\* answered after that one submission on that one connection
C20_Witness ==
    /\ UserQueryInterrupted
    /\ HasReturned
    /\ db.connects = 1
    /\ Cardinality(StatementSubmissions) = 1
    /\ db.statements[Len(db.statements)].statement.kind = "user"

\* ------------------------------------------------------------------------
\* Properties of the cache
\* ------------------------------------------------------------------------
\* the values that the callers of get_cached_kpi_mapping have been returned
ReturnedMappings ==
    {callers[t].result.value : t \in {u \in DOMAIN callers : callers[u].result.returned}}

\* C19: when several threads of one process make their first call of
\* get_cached_kpi_mapping concurrently, the mapping is built at most once,
\* the cache is written at most once, and every caller is returned the one
\* mapping built from the metadata file.
C19_AsStated ==
    /\ builds <= 1
    /\ stores <= 1
    /\ ReturnedMappings \subseteq {Dict(get_kpi_mapping(metadata_file))}

\* what the callers are returned: never None and never a partial mapping
C19_ReadersSeeBuiltMapping ==
    ReturnedMappings \subseteq {Dict(get_kpi_mapping(metadata_file))}

\* every caller found the cache empty and built the mapping itself
C19_EveryCallerBuilds ==
    /\ callers # NoCallers
    /\ \A t \in Callers : callers[t].pc = "done"
    /\ builds = MaxCallers
    /\ stores = MaxCallers

\* ------------------------------------------------------------------------
\* Properties of the browser agent
\* ------------------------------------------------------------------------
\* the threads whose invocation holds the slot: admitted and not yet released
SlotHolders ==
    {t \in DOMAIN invocations :
        invocations[t].admitted /\ invocations[t].pc \in {"try", "browsing", "finally", "release"}}

\* thread t leaves invoke with the "Agent busy" failure
Rejects(t) ==
    invocations[t].pc = "check" /\ invocations'[t].pc = "idle"

\* C29: _active_requests is 0 or 1 and counts the invocations admitted and
\* not yet released, of which there is at most one under any interleaving;
\* an invocation that finds the slot taken is rejected, and a rejected one
\* has started no browser session and leaves _active_requests and
\* _agent_busy as they are.
C29_SingleAdmission ==
    /\ [](/\ active_requests \in {0, 1}
          /\ Cardinality(SlotHolders) = active_requests
          /\ \A t \in DOMAIN invocations :
                invocations[t].session => invocations[t].admitted)
    /\ [][\A t \in DOMAIN invocations :
            /\ (invocations[t].pc = "check" /\ invocations'[t].pc # "check" /\ SlotHolders # {})
                  => Rejects(t)
            /\ Rejects(t) =>
                  /\ invocations'[t].result = "Agent busy"
                  /\ ~invocations'[t].session
                  /\ active_requests' = active_requests
                  /\ agent_busy' = agent_busy]_vars

\* an invocation has been rejected while another one has its browser
\* session open
C29_Witness ==
    \E t, u \in DOMAIN invocations :
        /\ invocations[t].result = "Agent busy"
        /\ invocations[t].pc = "idle"
        /\ invocations[u].pc = "browsing"
        /\ active_requests = 1

\* the threads that are not inside invoke
Finished(t) == invocations[t].pc = "idle"

\* C30: an admitted invocation releases its slot exactly once by the time
\* it returns, whatever its exit path, and a rejected one never does; when
\* no invocation is in progress _active_requests is 0 and _agent_busy is
\* false, and an invocation that then checks the capacity is admitted.
C30_SlotReleased ==
    /\ [](/\ \A t \in DOMAIN invocations :
                /\ invocations[t].releases <= 1
                /\ ~invocations[t].admitted => invocations[t].releases = 0
                /\ (Finished(t) /\ invocations[t].admitted) => invocations[t].releases = 1
          /\ (\A t \in DOMAIN invocations : Finished(t)) =>
                (active_requests = 0 /\ agent_busy = FALSE))
    /\ [][\A t \in DOMAIN invocations :
            (invocations[t].pc = "check" /\ invocations'[t].pc # "check" /\ SlotHolders = {})
                => invocations'[t].admitted]_vars

\* the third invocation has been admitted after an admitted invocation
\* that ended with a browser exception had released its slot
C30_Witness ==
    /\ arrivals = 3
    /\ \E t, u \in DOMAIN invocations :
          /\ t # u
          /\ invocations[t].pc = "try"
          /\ invocations[t].admitted
          /\ invocations[u].pc = "idle"
          /\ invocations[u].result = "browser exception"
          /\ invocations[u].releases = 1
    /\ active_requests = 1

====
